---- MODULE Spec2Model ----
(***************************************************************************)
(* A model of the necroventure engine (src/src/engine.rs and               *)
(* src/src/engine/conf.rs): the entity list, the inventory, the dungeon    *)
(* generator and spawner, the turn loop of play_game, combat, death,       *)
(* levelling and the item effects.                                         *)
(*                                                                         *)
(* Encoding.  An Option<T> is a sequence of length 0 (None) or 1 (Some).   *)
(* An Ai value is the sequence of the num_turns fields of its nested       *)
(* Confused wrappers, outermost first: <<>> is Ai::Basic and <<n>> \o a is *)
(* Ai::Confused {previous_ai: a, num_turns: n}.  Rust indices are 0-based; *)
(* the sequences here are 1-based, so Rust index i is element i + 1 and    *)
(* PLAYER_ID = 0 is element 1.  The map is the set of its tiles that are   *)
(* not blocked.  Glyph, colour, always_visible and the explored flag are   *)
(* read by the renderer alone and are left out.                            *)
(***************************************************************************)
EXTENDS Integers, Sequences, FiniteSets, TLC

(***************************************************************************)
(* Bounds of the model.  The first six stand for the GameSettings fields   *)
(* map_w, map_h, room_min_size, room_max_size, max_rooms and torch_radius, *)
(* scaled down from 80, 43, 6, 10, 20 and 10.                              *)
(***************************************************************************)
MapW == 6
MapH == 3
RoomMinSize == 2
RoomMaxSize == 2
MaxRooms == 2
TorchRadius == 3
MaxDungeonLevel == 2
FightMapW == 9
FightMaxRooms == 3
StoreMaxItems == 26
StoreKeep == 25
ArmouryMaxItems == 3
GearMaxLen == 2
BurnTorchRadius == 4
BoltMapW == 8
BoltMapH == 4
BoltTorchRadius == 6
CaveMapW == 6
CaveMapH == 6
CaveRoomMaxSize == 3
CaveMaxRooms == 3
SpawnMapW == 7
SpawnMapH == 4
SpawnMaxMonsters == 2
SpawnMaxItems == 2
LookupMaxLen == 3
LookupMaxLevel == 10
ReachMapW == 12
ReachTorchRadius == 10

\* GameSettings, less the fields of the screen layout and the colours.
GameSettings(map_w, map_h, room_min_size, room_max_size, max_rooms, torch_radius) ==
    [map_w |-> map_w, map_h |-> map_h, room_min_size |-> room_min_size,
     room_max_size |-> room_max_size, max_rooms |-> max_rooms,
     torch_radius |-> torch_radius]

(***************************************************************************)
(* Program constants.                                                      *)
(***************************************************************************)
\* PLAYER_ID = 0 in the source: element 1 of the 1-based sequence.
PLAYER_ID == 0 + 1
MAX_INV_SPACE == 26
HEAL_AMOUNT == 12
LIGHTNING_DAMAGE == 40
LIGHTNING_RANGE == 5
CONFUSE_RANGE == 8
CONFUSE_NUM_TURNS == 10
FIREBALL_DAMAGE == 24
FIREBALL_RADIUS == 3
LEVEL_UP_BASE == 50
LEVEL_UP_FACTOR == 150

None == <<>>
Some(v) == <<v>>
IsSome(o) == Len(o) = 1
IsNone(o) == Len(o) = 0
Unwrap(o) == o[1]

AiBasic == <<>>
AiConfused(previous_ai, num_turns) == <<num_turns>> \o previous_ai

Min(a, b) == IF a < b THEN a ELSE b
Max(a, b) == IF a > b THEN a ELSE b
SetMax(S) == CHOOSE m \in S : \A n \in S : n <= m

(***************************************************************************)
(* Entities.                                                               *)
(***************************************************************************)
NewDisplayObj(x, y, name, blocks) ==
    [x |-> x, y |-> y, name |-> name, blocks |-> blocks, alive |-> FALSE,
     fighter |-> None, ai |-> None, item |-> None, level |-> 1,
     equipment |-> None]

NewFighter(base_max_hp, hp, base_defense, base_power, xp, on_death) ==
    [base_max_hp |-> base_max_hp, hp |-> hp, base_defense |-> base_defense,
     base_power |-> base_power, xp |-> xp, on_death |-> on_death]

NewEquipment(slot, equipped, max_hp_bonus, defense_bonus, power_bonus) ==
    [slot |-> slot, equipped |-> equipped, max_hp_bonus |-> max_hp_bonus,
     defense_bonus |-> defense_bonus, power_bonus |-> power_bonus]

NewPlayer ==
    [NewDisplayObj(25, 23, "player", TRUE) EXCEPT
        !.alive = TRUE,
        !.fighter = Some(NewFighter(100, 100, 1, 3, 0, "Player"))]

Dagger ==
    [NewDisplayObj(0, 0, "dagger", FALSE) EXCEPT
        !.item = Some("Sword"),
        !.equipment = Some(NewEquipment("LeftHand", TRUE, 0, 0, 1))]

GetPos(o) == <<o.x, o.y>>
SetPos(o, x, y) == [o EXCEPT !.x = x, !.y = y]

(***************************************************************************)
(* The spawn tables (settings.json, read by load_weighted_tables).  The    *)
(* file is data outside the sources; this is one small instance of it.     *)
(***************************************************************************)
Transition(level, value) == [level |-> level, value |-> value]

ObjectConfiguration(name, transition_table, fighter, ai, item, equipment) ==
    [name |-> name, transition_table |-> transition_table,
     fighter |-> fighter, ai |-> ai, item |-> item, equipment |-> equipment]

Monster(name, hp, defense, power, xp, weights) ==
    ObjectConfiguration(name, weights,
        Some(NewFighter(hp, hp, defense, power, xp, "Monster")), Some(AiBasic),
        None, None)

Scroll(name, item, weights) ==
    ObjectConfiguration(name, weights, None, None, Some(item), None)

TransitionTables(max_monsters, max_items, monsters, items) ==
    [max_monsters |-> max_monsters, max_items |-> max_items,
     monsters |-> monsters, items |-> items]

\* Level 1: rats (their attack has no effect on the player) and fireball
\* scrolls; from level 2 on: orcs and lightning scrolls.
Tables ==
    TransitionTables(<< Transition(1, 1) >>, << Transition(1, 1) >>,
        << Monster("rat", 4, 0, 1, 35, << Transition(1, 1), Transition(2, 0) >>),
           Monster("orc", 8, 0, 51, 35, << Transition(2, 1) >>) >>,
        << Scroll("fireball scroll", "Fireball", << Transition(1, 1), Transition(2, 0) >>),
           Scroll("lightning scroll", "Lightning", << Transition(2, 1) >>) >>)

AsObject(conf, x, y) ==
    LET object == NewDisplayObj(x, y, conf.name, TRUE)
    IN  IF conf.fighter # None
        THEN [object EXCEPT !.fighter = conf.fighter, !.ai = conf.ai,
                            !.alive = TRUE]
        ELSE IF conf.item # None
        THEN [object EXCEPT !.item = conf.item,
                            !.equipment = conf.equipment, !.blocks = FALSE]
        ELSE object

\* from_dungeon_level searching from the front (find without rev).
FromDungeonLevelFirst(table, level) ==
    LET hits == {i \in 1..Len(table) : level >= table[i].level}
    IN  IF hits = {} THEN 0
        ELSE table[CHOOSE i \in hits : \A j \in hits : i <= j].value

FromDungeonLevel(table, level) ==
    LET hits == {i \in 1..Len(table) : level >= table[i].level}
    IN  IF hits = {} THEN 0 ELSE table[SetMax(hits)].value

(***************************************************************************)
(* Rooms and the map.                                                      *)
(***************************************************************************)
NewRoom(x, y, w, h) == [x1 |-> x, y1 |-> y, x2 |-> x + w, y2 |-> y + h]

Center(room) == << (room.x1 + room.x2) \div 2, (room.y1 + room.y2) \div 2 >>

\* intersects_with letting rooms share a wall line.
IntersectsWithStrict(a, b) ==
    /\ a.x1 < b.x2
    /\ a.x2 > b.x1
    /\ a.y1 < b.y2
    /\ a.y2 > b.y1

IntersectsWith(a, b) ==
    /\ a.x1 <= b.x2
    /\ a.x2 >= b.x1
    /\ a.y1 <= b.y2
    /\ a.y2 >= b.y1

\* create_room that carves the wall lines of the rectangle as well.
CreateRoomWithWalls(room, map) ==
    map \cup {<<x, y>> : x \in room.x1..room.x2, y \in room.y1..room.y2}

CreateRoom(room, map) ==
    map \cup {<<x, y>> : x \in (room.x1 + 1)..(room.x2 - 1),
                         y \in (room.y1 + 1)..(room.y2 - 1)}

\* create_h_tunnel that carves nothing.
CreateHTunnelNone(x1, x2, y, map) == map

CreateHTunnel(x1, x2, y, map) ==
    map \cup {<<x, y>> : x \in Min(x1, x2)..Max(x1, x2)}

CreateVTunnel(y1, y2, x, map) ==
    map \cup {<<x, y>> : y \in Min(y1, y2)..Max(y1, y2)}

IsBlocked(x, y, map, objects) ==
    \/ <<x, y>> \notin map
    \/ \E i \in 1..Len(objects) : objects[i].blocks /\ GetPos(objects[i]) = <<x, y>>

(***************************************************************************)
(* The spawner.  A generation state is [map, objects, rooms, panic,         *)
(* spawns]; every operator returns the set of states the random draws can  *)
(* produce.  spawns is a history of the generate_objects calls that        *)
(* returned.                                                               *)
(***************************************************************************)
SpawnOne(conf_data, weights, room, map, objects) ==
    UNION { IF IsBlocked(x, y, map, objects)
            THEN {objects}
            ELSE {Append(objects, AsObject(conf_data[k], x, y)) :
                    k \in {j \in 1..Len(conf_data) : weights[j] > 0}} :
            x \in (room.x1 + 1)..(room.x2 - 1),
            y \in (room.y1 + 1)..(room.y2 - 1) }

RECURSIVE SpawnLoop(_, _, _, _, _, _)
SpawnLoop(n, conf_data, weights, room, map, O) ==
    IF n = 0 THEN O
    ELSE SpawnLoop(n - 1, conf_data, weights, room, map,
            UNION {SpawnOne(conf_data, weights, room, map, objects) : objects \in O})

\* The record of a generate_objects call: the room, the cap it was given,
\* the number of turns of its loop (num_to_spawn), and the entities it
\* pushed: added of them, from index first on.
Spawned(max_spawns, num_to_spawn, room, objects, o) ==
    [fn |-> "generate_objects", room |-> room, max_spawns |-> max_spawns,
     num_to_spawn |-> num_to_spawn, first |-> Len(objects) + 1,
     added |-> Len(o) - Len(objects)]

\* generate_objects drawing num_to_spawn from 0..max_spawns + 1.
GenerateObjectsOneMore(max_spawns, conf_data, room, map, level, objects) ==
    LET weights == [k \in 1..Len(conf_data) |->
                        FromDungeonLevel(conf_data[k].transition_table, level)]
    IN  IF \A k \in 1..Len(conf_data) : weights[k] = 0
        THEN {[objects |-> objects, panic |-> TRUE, spawns |-> <<>>]}
        ELSE UNION {
                {[objects |-> o, panic |-> FALSE,
                  spawns |-> << Spawned(max_spawns, num_to_spawn, room,
                                        objects, o) >>] :
                    o \in SpawnLoop(num_to_spawn, conf_data, weights, room,
                                    map, {objects})} :
                num_to_spawn \in 0..(max_spawns + 1)}

\* WeightedIndex::new fails on an empty list and on weights that are all 0,
\* and the unwrap() then panics, before any draw.
GenerateObjects(max_spawns, conf_data, room, map, level, objects) ==
    LET weights == [k \in 1..Len(conf_data) |->
                        FromDungeonLevel(conf_data[k].transition_table, level)]
    IN  IF \A k \in 1..Len(conf_data) : weights[k] = 0
        THEN {[objects |-> objects, panic |-> TRUE, spawns |-> <<>>]}
        ELSE UNION {
                {[objects |-> o, panic |-> FALSE,
                  spawns |-> << Spawned(max_spawns, num_to_spawn, room,
                                        objects, o) >>] :
                    o \in SpawnLoop(num_to_spawn, conf_data, weights, room,
                                    map, {objects})} :
                num_to_spawn \in 0..max_spawns}

PlaceObjects(tables, room, map, level, objects) ==
    IF tables = None
    THEN {[objects |-> objects, panic |-> TRUE, spawns |-> <<>>]}
    ELSE LET t == Unwrap(tables)
             monsters == GenerateObjects(FromDungeonLevel(t.max_monsters, level),
                                         t.monsters, room, map, level, objects)
         IN  UNION { IF m.panic THEN {m}
                     ELSE {[i EXCEPT !.spawns = m.spawns \o @] :
                            i \in GenerateObjects(
                                    FromDungeonLevel(t.max_items, level),
                                    t.items, room, map, level, m.objects)} :
                     m \in monsters }

(***************************************************************************)
(* make_map.  One turn of its room loop, for every draw of w, h, x, y and  *)
(* of the tunnel order.                                                    *)
(***************************************************************************)
RoomStep(s, level, tables, gs) ==
    IF s.panic THEN {s}
    ELSE UNION { UNION {
        LET new_room == NewRoom(x, y, w, h)
            failed == \E i \in 1..Len(s.rooms) : IntersectsWith(new_room, s.rooms[i])
            map1 == CreateRoom(new_room, s.map)
            new_x == Center(new_room)[1]
            new_y == Center(new_room)[2]
        IN  IF failed THEN {s}
            ELSE IF s.rooms = <<>>
            THEN {[s EXCEPT !.map = map1,
                            !.objects[PLAYER_ID] = SetPos(@, new_x, new_y),
                            !.rooms = Append(@, new_room)]}
            ELSE LET prev == Center(s.rooms[Len(s.rooms)])
                 IN UNION {
                    IF placed.panic
                    THEN {[s EXCEPT !.map = map1, !.objects = placed.objects,
                                    !.spawns = @ \o placed.spawns,
                                    !.panic = TRUE]}
                    ELSE {[s EXCEPT
                             !.map = CreateVTunnel(prev[2], new_y, new_x,
                                        CreateHTunnel(prev[1], new_x, prev[2], map1)),
                             !.objects = placed.objects,
                             !.spawns = @ \o placed.spawns,
                             !.rooms = Append(@, new_room)],
                          [s EXCEPT
                             !.map = CreateHTunnel(prev[1], new_x, new_y,
                                        CreateVTunnel(prev[2], new_y, prev[1], map1)),
                             !.objects = placed.objects,
                             !.spawns = @ \o placed.spawns,
                             !.rooms = Append(@, new_room)]} :
                    placed \in PlaceObjects(tables, new_room, map1, level, s.objects) } :
        x \in 0..(gs.map_w - w - 1), y \in 0..(gs.map_h - h - 1) } :
        w \in gs.room_min_size..gs.room_max_size,
        h \in gs.room_min_size..gs.room_max_size }

RECURSIVE RoomLoop(_, _, _, _, _)
RoomLoop(n, S, level, tables, gs) ==
    IF n = 0 THEN S
    ELSE RoomLoop(n - 1, UNION {RoomStep(s, level, tables, gs) : s \in S},
                  level, tables, gs)

Stairs(x, y) == NewDisplayObj(x, y, "stairs", FALSE)

\* make_map putting the stairs at the centre of the first room.
MakeMapStairsAtFirst(objects, level, tables, gs) ==
    LET start == [map |-> {}, objects |-> SubSeq(objects, 1, 1), rooms |-> <<>>,
                  panic |-> FALSE, spawns |-> <<>>]
    IN  { IF s.panic THEN s
          ELSE IF s.rooms = <<>> THEN [s EXCEPT !.panic = TRUE]
          ELSE LET last == Center(s.rooms[1])
               IN  [s EXCEPT !.objects = Append(@, Stairs(last[1], last[2]))] :
          s \in RoomLoop(gs.max_rooms, {start}, level, tables, gs) }

\* The set of [map, objects, rooms, panic, spawns] that make_map can return
\* ("panic": it does not return).  rooms[rooms.len() - 1] panics on an empty
\* list.
MakeMap(objects, level, tables, gs) ==
    LET start == [map |-> {}, objects |-> SubSeq(objects, 1, 1), rooms |-> <<>>,
                  panic |-> FALSE, spawns |-> <<>>]
    IN  { IF s.panic THEN s
          ELSE IF s.rooms = <<>> THEN [s EXCEPT !.panic = TRUE]
          ELSE LET last == Center(s.rooms[Len(s.rooms)])
               IN  [s EXCEPT !.objects = Append(@, Stairs(last[1], last[2]))] :
          s \in RoomLoop(gs.max_rooms, {start}, level, tables, gs) }

\* The record of the rooms make_map accepted (rooms.push), in order.
Carved(rooms) ==
    [k \in 1..Len(rooms) |-> [fn |-> "create_room", room |-> rooms[k]]]

(***************************************************************************)
(* Combat.  A game state st is [objects, inventory, messages, calls].      *)
(* messages holds the entries the current step has pushed to the message   *)
(* log (the log is only ever appended to); calls is a history of the       *)
(* attack, take_damage, ai_take_turn, use_item and drop_item calls of the   *)
(* current step, of the tile a fireball was cast on and of the rooms that   *)
(* make_map accepted and the generate_objects calls it made.               *)
(***************************************************************************)
RECURSIVE SumSeq(_)
SumSeq(s) == IF s = <<>> THEN 0 ELSE Head(s) + SumSeq(Tail(s))

IsEquipped(item) == IsSome(item.equipment) /\ Unwrap(item.equipment).equipped

GetAllEquipped(o, inventory) ==
    IF o.name = "player"
    THEN LET sel == SelectSeq(inventory, IsEquipped)
         IN  [i \in 1..Len(sel) |-> Unwrap(sel[i].equipment)]
    ELSE <<>>

MaxHp(o, inventory) ==
    LET e == GetAllEquipped(o, inventory)
    IN  (IF IsSome(o.fighter) THEN Unwrap(o.fighter).base_max_hp ELSE 0)
        + SumSeq([i \in 1..Len(e) |-> e[i].max_hp_bonus])

Power(o, inventory) ==
    LET e == GetAllEquipped(o, inventory)
    IN  (IF IsSome(o.fighter) THEN Unwrap(o.fighter).base_power ELSE 0)
        + SumSeq([i \in 1..Len(e) |-> e[i].power_bonus])

Defense(o, inventory) ==
    LET e == GetAllEquipped(o, inventory)
    IN  (IF IsSome(o.fighter) THEN Unwrap(o.fighter).base_defense ELSE 0)
        + SumSeq([i \in 1..Len(e) |-> e[i].defense_bonus])

AddMessage(st, text) == [st EXCEPT !.messages = Append(@, text)]

RemainsName(name) ==
    CASE name = "orc" -> "remains of orc"
      [] name = "rat" -> "remains of rat"
      [] OTHER -> "remains"

PlayerDeath(st, i) == AddMessage(st, "You died!")

\* monster_death leaving the AI facet in place.
MonsterDeathKeepsAi(st, i) ==
    [AddMessage(st, "is dead! You gain experience points.") EXCEPT
        !.objects[i].blocks = FALSE,
        !.objects[i].fighter = None,
        !.objects[i].name = RemainsName(@)]

MonsterDeath(st, i) ==
    [AddMessage(st, "is dead! You gain experience points.") EXCEPT
        !.objects[i].blocks = FALSE,
        !.objects[i].fighter = None,
        !.objects[i].ai = None,
        !.objects[i].name = RemainsName(@)]

DeathCallback(on_death, st, i) ==
    IF on_death = "Player" THEN PlayerDeath(st, i) ELSE MonsterDeath(st, i)

\* take_damage taking an hp of exactly 0 for alive.
TakeDamageBelowZero(st, i, damage) ==
    LET o == st.objects[i]
        st1 == IF IsSome(o.fighter) /\ damage > 0
               THEN [st EXCEPT !.objects[i].fighter[1].hp = @ - damage]
               ELSE st
        f == st1.objects[i].fighter
        dead == IsSome(f) /\ Unwrap(f).hp < 0
        xp == IF dead THEN Some(Unwrap(f).xp) ELSE None
        st2 == IF dead
               THEN DeathCallback(Unwrap(f).on_death,
                                  [st1 EXCEPT !.objects[i].alive = FALSE], i)
               ELSE st1
    IN  [st |-> [st2 EXCEPT !.calls = Append(@,
                    [fn |-> "take_damage", self |-> i, damage |-> damage,
                     hp |-> IF IsSome(f) THEN Some(Unwrap(f).hp) ELSE None,
                     alive |-> st2.objects[i].alive, ret |-> xp])],
         xp |-> xp]

\* [st, xp]: the state after objects[i].take_damage(damage) and its result.
\* The call's record keeps the hp the damage left (the death callback of a
\* monster removes the fighter), the alive flag at return and the result.
TakeDamage(st, i, damage) ==
    LET o == st.objects[i]
        st1 == IF IsSome(o.fighter) /\ damage > 0
               THEN [st EXCEPT !.objects[i].fighter[1].hp = @ - damage]
               ELSE st
        f == st1.objects[i].fighter
        dead == IsSome(f) /\ Unwrap(f).hp <= 0
        xp == IF dead THEN Some(Unwrap(f).xp) ELSE None
        st2 == IF dead
               THEN DeathCallback(Unwrap(f).on_death,
                                  [st1 EXCEPT !.objects[i].alive = FALSE], i)
               ELSE st1
    IN  [st |-> [st2 EXCEPT !.calls = Append(@,
                    [fn |-> "take_damage", self |-> i, damage |-> damage,
                     hp |-> IF IsSome(f) THEN Some(Unwrap(f).hp) ELSE None,
                     alive |-> st2.objects[i].alive, ret |-> xp])],
         xp |-> xp]

\* objects[a].attack(objects[t])
Attack(st, a, t) ==
    LET damage == Power(st.objects[a], st.inventory)
                  - Defense(st.objects[t], st.inventory)
        st0 == [st EXCEPT !.calls = Append(@,
                    [fn |-> "attack", self |-> a, target |-> t])]
    IN  IF damage > 0
        THEN LET r == TakeDamage(AddMessage(st0, "attacks for hit points."), t, damage)
             IN  IF IsSome(r.xp)
                 THEN [r.st EXCEPT !.objects[a].fighter[1].xp = @ + Unwrap(r.xp)]
                 ELSE r.st
        ELSE AddMessage(st0, "attacks but it has no effect!")

\* heal() without the cap at max_hp.
HealUncapped(st, i, amount) ==
    IF IsSome(st.objects[i].fighter)
    THEN [st EXCEPT !.objects[i].fighter[1].hp = @ + amount]
    ELSE st

Heal(st, i, amount) ==
    LET max_hp == MaxHp(st.objects[i], st.inventory)
        o == st.objects[i]
    IN  IF IsSome(o.fighter)
        THEN [st EXCEPT !.objects[i].fighter[1].hp = Min(@ + amount, max_hp)]
        ELSE st

(***************************************************************************)
(* Movement and AI.  fov is the set of tiles the tcod library's FovMap     *)
(* has in view.  compute_fov is the library's: it is modelled as the tiles *)
(* of the map within torch_radius of the player, walls not occluding.      *)
(***************************************************************************)
Dist2(x1, y1, x2, y2) == (x2 - x1) * (x2 - x1) + (y2 - y1) * (y2 - y1)

ComputeFov(gs, x, y) ==
    {t \in (0..(gs.map_w - 1)) \X (0..(gs.map_h - 1)) :
        Dist2(x, y, t[1], t[2]) <= gs.torch_radius * gs.torch_radius}

IsInFov(fov, x, y) == <<x, y>> \in fov

\* move_by that does not ask is_blocked.
MoveByAnyway(st, id, dx, dy, map) ==
    [st EXCEPT !.objects[id] =
        SetPos(@, st.objects[id].x + dx, st.objects[id].y + dy)]

MoveBy(st, id, dx, dy, map) ==
    LET o == st.objects[id]
    IN  IF ~IsBlocked(o.x + dx, o.y + dy, map, st.objects)
        THEN [st EXCEPT !.objects[id] = SetPos(@, o.x + dx, o.y + dy)]
        ELSE st

\* (d as f32 / distance).round() for distance = sqrt(dx^2 + dy^2) > 0:
\* |d| / distance >= 1/2 exactly when 4 d^2 >= dx^2 + dy^2.
RoundUnit(d, dist2) ==
    IF 4 * d * d >= dist2 THEN (IF d > 0 THEN 1 ELSE -1) ELSE 0

MoveTowards(st, id, target_x, target_y, map) ==
    LET dx == target_x - st.objects[id].x
        dy == target_y - st.objects[id].y
        dist2 == dx * dx + dy * dy
    IN  IF dist2 = 0 THEN MoveBy(st, id, 0, 0, map)
        ELSE MoveBy(st, id, RoundUnit(dx, dist2), RoundUnit(dy, dist2), map)

\* ai_basic without the test of the player's hp.
AiBasicTurnStrikesDead(st, monster_id, fov, map) ==
    LET m == st.objects[monster_id]
        p == st.objects[PLAYER_ID]
    IN  [ai |-> AiBasic,
         st |-> IF IsInFov(fov, m.x, m.y)
                THEN IF Dist2(m.x, m.y, p.x, p.y) >= 4
                     THEN MoveTowards(st, monster_id, p.x, p.y, map)
                     ELSE Attack(st, monster_id, PLAYER_ID)
                ELSE st]

\* [st, ai]: the state after ai_basic and the Ai it returns.
AiBasicTurn(st, monster_id, fov, map) ==
    LET m == st.objects[monster_id]
        p == st.objects[PLAYER_ID]
    IN  [ai |-> AiBasic,
         st |-> IF IsInFov(fov, m.x, m.y)
                THEN IF Dist2(m.x, m.y, p.x, p.y) >= 4
                     THEN MoveTowards(st, monster_id, p.x, p.y, map)
                     ELSE IF IsSome(p.fighter) /\ Unwrap(p.fighter).hp > 0
                     THEN Attack(st, monster_id, PLAYER_ID)
                     ELSE st
                ELSE st]

\* ai_confused that does not count the turn.
AiConfusedTurnUncounted(st, monster_id, map, previous_ai, num_turns) ==
    IF num_turns >= 0
    THEN {[ai |-> AiConfused(previous_ai, num_turns),
           st |-> MoveBy(st, monster_id, dx, dy, map)] :
            dx \in -1..1, dy \in -1..1}
    ELSE {[ai |-> previous_ai,
           st |-> AddMessage(st, "is no longer confused!")]}

\* The set of [st, ai] after ai_confused, one per draw of the random step.
AiConfusedTurn(st, monster_id, map, previous_ai, num_turns) ==
    IF num_turns >= 0
    THEN {[ai |-> AiConfused(previous_ai, num_turns - 1),
           st |-> MoveBy(st, monster_id, dx, dy, map)] :
            dx \in -1..1, dy \in -1..1}
    ELSE {[ai |-> previous_ai,
           st |-> AddMessage(st, "is no longer confused!")]}

\* ai_take_turn that does not put an AI back after a confused turn.
AiTakeTurnDropsConfused(st, monster_id, fov, map) ==
    LET taken == st.objects[monster_id].ai
        st0 == [st EXCEPT !.objects[monster_id].ai = None,
                          !.calls = Append(@, [fn |-> "ai_take_turn",
                                               self |-> monster_id])]
    IN  IF IsSome(taken)
        THEN LET ai == Unwrap(taken)
             IN  IF ai = AiBasic
                 THEN LET r == AiBasicTurn(st0, monster_id, fov, map)
                      IN  {[r.st EXCEPT !.objects[monster_id].ai = Some(r.ai)]}
                 ELSE {r.st : r \in AiConfusedTurn(st0, monster_id, map,
                                                   Tail(ai), Head(ai))}
        ELSE {st}

\* The set of states after ai_take_turn(monster_id).
AiTakeTurn(st, monster_id, fov, map) ==
    LET taken == st.objects[monster_id].ai
        st0 == [st EXCEPT !.objects[monster_id].ai = None,
                          !.calls = Append(@, [fn |-> "ai_take_turn",
                                               self |-> monster_id])]
    IN  IF IsSome(taken)
        THEN LET ai == Unwrap(taken)
                 R == IF ai = AiBasic
                      THEN {AiBasicTurn(st0, monster_id, fov, map)}
                      ELSE AiConfusedTurn(st0, monster_id, map, Tail(ai), Head(ai))
             IN  {[r.st EXCEPT !.objects[monster_id].ai = Some(r.ai)] : r \in R}
        ELSE {st}

\* mut_two(first_index, second_index, ..) asserts that the two differ.
PlayerMoveOrAttack(st, dx, dy, map) ==
    LET x == st.objects[PLAYER_ID].x + dx
        y == st.objects[PLAYER_ID].y + dy
        targets == {i \in 1..Len(st.objects) :
                        IsSome(st.objects[i].fighter) /\ GetPos(st.objects[i]) = <<x, y>>}
    IN  IF targets # {}
        THEN Attack(st, PLAYER_ID, CHOOSE i \in targets : \A j \in targets : i <= j)
        ELSE MoveBy(st, PLAYER_ID, dx, dy, map)

(***************************************************************************)
(* Inventory and equipment.                                                *)
(***************************************************************************)
\* Vec::swap_remove(i): the last element takes the place of element i.
SwapRemove(s, i) ==
    IF i = Len(s) THEN SubSeq(s, 1, Len(s) - 1)
    ELSE SubSeq([s EXCEPT ![i] = s[Len(s)]], 1, Len(s) - 1)

\* Vec::remove(i): the elements after i shift down.
Remove(s, i) == SubSeq(s, 1, i - 1) \o SubSeq(s, i + 1, Len(s))

\* equip() that logs and sets the flag whether or not it was set.
EquipRepeated(o) ==
    IF IsNone(o.item)
    THEN [object |-> o, messages |-> << "Can't equip because it's not an Item." >>]
    ELSE IF IsSome(o.equipment)
    THEN [object |-> [o EXCEPT !.equipment[1].equipped = TRUE],
          messages |-> << "Equipped." >>]
    ELSE [object |-> o, messages |-> << "Can't equip because it's not an Equipment." >>]

\* [object, messages]: the object after equip() and the messages it pushed.
Equip(o) ==
    IF IsNone(o.item)
    THEN [object |-> o, messages |-> << "Can't equip because it's not an Item." >>]
    ELSE IF IsSome(o.equipment)
    THEN IF ~Unwrap(o.equipment).equipped
         THEN [object |-> [o EXCEPT !.equipment[1].equipped = TRUE],
               messages |-> << "Equipped." >>]
         ELSE [object |-> o, messages |-> <<>>]
    ELSE [object |-> o, messages |-> << "Can't equip because it's not an Equipment." >>]

Dequip(o) ==
    IF IsNone(o.item)
    THEN [object |-> o, messages |-> << "Can't dequip because it's not an Item." >>]
    ELSE IF IsSome(o.equipment)
    THEN IF Unwrap(o.equipment).equipped
         THEN [object |-> [o EXCEPT !.equipment[1].equipped = FALSE],
               messages |-> << "Dequipped." >>]
         ELSE [object |-> o, messages |-> <<>>]
    ELSE [object |-> o, messages |-> << "Can't dequip because it's not an Equipment." >>]

EquipInventory(st, index) ==
    LET r == Equip(st.inventory[index])
    IN  [st EXCEPT !.inventory[index] = r.object, !.messages = @ \o r.messages]

DequipInventory(st, index) ==
    LET r == Dequip(st.inventory[index])
    IN  [st EXCEPT !.inventory[index] = r.object, !.messages = @ \o r.messages]

\* Option of the first inventory index whose equipment is equipped in slot.
GetEquippedInSlot(slot, inventory) ==
    LET found == {i \in 1..Len(inventory) :
                    /\ IsSome(inventory[i].equipment)
                    /\ Unwrap(inventory[i].equipment).equipped
                    /\ Unwrap(inventory[i].equipment).slot = slot}
    IN  IF found = {} THEN None
        ELSE Some(CHOOSE i \in found : \A j \in found : i <= j)

\* pick_item_up testing len() > MAX_INV_SPACE.
PickItemUpOverfull(st, object_id) ==
    IF Len(st.inventory) > MAX_INV_SPACE
    THEN AddMessage(st, "Inventory full, cannot pick up.")
    ELSE LET item == st.objects[object_id]
             index == Len(st.inventory) + 1
             st1 == AddMessage([st EXCEPT !.objects = SwapRemove(@, object_id),
                                          !.inventory = Append(@, item)],
                               "You picked up!")
         IN  IF /\ IsSome(item.equipment)
                /\ IsNone(GetEquippedInSlot(Unwrap(item.equipment).slot, st1.inventory))
             THEN EquipInventory(st1, index)
             ELSE st1

\* pick_item_up that fails when the inventory is full, and loses the item.
PickItemUpLosesItem(st, object_id) ==
    IF Len(st.inventory) >= MAX_INV_SPACE
    THEN AddMessage([st EXCEPT !.objects = SwapRemove(@, object_id)],
                    "Inventory full, cannot pick up.")
    ELSE LET item == st.objects[object_id]
             index == Len(st.inventory) + 1
             st1 == AddMessage([st EXCEPT !.objects = SwapRemove(@, object_id),
                                          !.inventory = Append(@, item)],
                               "You picked up!")
         IN  IF /\ IsSome(item.equipment)
                /\ IsNone(GetEquippedInSlot(Unwrap(item.equipment).slot, st1.inventory))
             THEN EquipInventory(st1, index)
             ELSE st1

PickItemUp(st, object_id) ==
    IF Len(st.inventory) >= MAX_INV_SPACE
    THEN AddMessage(st, "Inventory full, cannot pick up.")
    ELSE LET item == st.objects[object_id]
             index == Len(st.inventory) + 1
             st1 == AddMessage([st EXCEPT !.objects = SwapRemove(@, object_id),
                                          !.inventory = Append(@, item)],
                               "You picked up!")
         IN  IF /\ IsSome(item.equipment)
                /\ IsNone(GetEquippedInSlot(Unwrap(item.equipment).slot, st1.inventory))
             THEN EquipInventory(st1, index)
             ELSE st1

\* drop_item inserting the item at the head of the entity list.
DropItemAtHead(st, inventory_id) ==
    LET removed == st.inventory[inventory_id]
        r == IF IsSome(removed.equipment) THEN Dequip(removed)
             ELSE [object |-> removed, messages |-> <<>>]
        item == SetPos(r.object, st.objects[PLAYER_ID].x, st.objects[PLAYER_ID].y)
    IN  [st EXCEPT !.inventory = Remove(@, inventory_id),
                   !.messages = (@ \o r.messages) \o << "You dropped." >>,
                   !.objects = << item >> \o @,
                   !.calls = Append(@, [fn |-> "drop_item",
                                        inventory_id |-> inventory_id])]

\* drop_item without the dequip().
DropItemEquipped(st, inventory_id) ==
    LET removed == st.inventory[inventory_id]
        item == SetPos(removed, st.objects[PLAYER_ID].x, st.objects[PLAYER_ID].y)
    IN  [st EXCEPT !.inventory = Remove(@, inventory_id),
                   !.messages = Append(@, "You dropped."),
                   !.objects = Append(@, item),
                   !.calls = Append(@, [fn |-> "drop_item",
                                        inventory_id |-> inventory_id])]

\* The state after drop_item(inventory_id); calls records the call.
DropItem(st, inventory_id) ==
    LET removed == st.inventory[inventory_id]
        r == IF IsSome(removed.equipment) THEN Dequip(removed)
             ELSE [object |-> removed, messages |-> <<>>]
        item == SetPos(r.object, st.objects[PLAYER_ID].x, st.objects[PLAYER_ID].y)
    IN  [st EXCEPT !.inventory = Remove(@, inventory_id),
                   !.messages = (@ \o r.messages) \o << "You dropped." >>,
                   !.objects = Append(@, item),
                   !.calls = Append(@, [fn |-> "drop_item",
                                        inventory_id |-> inventory_id])]

(***************************************************************************)
(* Item effects.  Each returns the set of [st, result] it can end in, one  *)
(* per answer of the player to a targeting prompt.                         *)
(***************************************************************************)
ToggleEquipment(st, inventory_id) ==
    IF IsNone(st.inventory[inventory_id].equipment)
    THEN {[st |-> st, result |-> "Cancelled"]}
    ELSE LET equipment == Unwrap(st.inventory[inventory_id].equipment)
             current == GetEquippedInSlot(equipment.slot, st.inventory)
             st1 == IF IsSome(current) THEN DequipInventory(st, Unwrap(current))
                    ELSE st
         IN  {[st |-> IF equipment.equipped
                      THEN DequipInventory(st1, inventory_id)
                      ELSE EquipInventory(st1, inventory_id),
               result |-> "UsedAndKept"]}

CastHeal(st) ==
    LET player == st.objects[PLAYER_ID]
    IN  IF IsSome(player.fighter)
        THEN IF Unwrap(player.fighter).hp = MaxHp(player, st.inventory)
             THEN {[st |-> AddMessage(st, "You are already at full health."),
                    result |-> "Cancelled"]}
             ELSE {[st |-> Heal(AddMessage(st, "Your wounds start to feel better!"),
                                PLAYER_ID, HEAL_AMOUNT),
                    result |-> "UsedUp"]}
        ELSE {[st |-> st, result |-> "Cancelled"]}

\* closest_dist starts at max_range + 1 and an entity replaces the closest
\* found so far only when strictly nearer: the scan by index, as a fold.
RECURSIVE ClosestScan(_, _, _, _, _, _)
ClosestScan(objects, fov, id, closest_enemy, closest_dist2, last) ==
    IF id > last THEN closest_enemy
    ELSE LET o == objects[id]
             p == objects[PLAYER_ID]
             dist2 == Dist2(p.x, p.y, o.x, o.y)
         IN  IF /\ id # PLAYER_ID
                /\ IsSome(o.fighter)
                /\ IsSome(o.ai)
                /\ IsInFov(fov, o.x, o.y)
                /\ dist2 < closest_dist2
             THEN ClosestScan(objects, fov, id + 1, Some(id), dist2, last)
             ELSE ClosestScan(objects, fov, id + 1, closest_enemy, closest_dist2, last)

ClosestMonster(fov, objects, max_range) ==
    ClosestScan(objects, fov, 1, None, (max_range + 1) * (max_range + 1),
                Len(objects))

CastLightning(st, fov) ==
    LET monster_id == ClosestMonster(fov, st.objects, LIGHTNING_RANGE)
    IN  IF IsSome(monster_id)
        THEN LET r == TakeDamage(AddMessage(st, "A lightning bolt strikes!"),
                                 Unwrap(monster_id), LIGHTNING_DAMAGE)
             IN  {[st |-> IF IsSome(r.xp)
                          THEN [r.st EXCEPT
                                  !.objects[PLAYER_ID].fighter[1].xp = @ + Unwrap(r.xp)]
                          ELSE r.st,
                   result |-> "UsedUp"]}
        ELSE {[st |-> AddMessage(st, "No enemy is close enough to strike."),
               result |-> "Cancelled"]}

\* target_tile that accepts a tile in view at any distance.
TargetTilesAnyRange(fov, objects, max_range) ==
    {t \in fov : TRUE}

\* target_tile that takes a missing range for the fireball's radius.
TargetTilesInRadius(fov, objects, max_range) ==
    {t \in fov :
        Dist2(objects[PLAYER_ID].x, objects[PLAYER_ID].y, t[1], t[2])
            <= (IF IsNone(max_range)
                THEN FIREBALL_RADIUS * FIREBALL_RADIUS
                ELSE Unwrap(max_range) * Unwrap(max_range))}

\* target_tile: the tiles a left-click can return (the prompt loops on any
\* other click); the cancel gesture returns None.  max_range is an Option.
TargetTiles(fov, objects, max_range) ==
    {t \in fov :
        \/ IsNone(max_range)
        \/ Dist2(objects[PLAYER_ID].x, objects[PLAYER_ID].y, t[1], t[2])
                <= Unwrap(max_range) * Unwrap(max_range)}

\* target_monster: the entities a click can select.
TargetMonsters(fov, objects, max_range) ==
    {id \in 1..Len(objects) :
        \E t \in TargetTiles(fov, objects, max_range) :
            LET at == {i \in 1..Len(objects) :
                        /\ GetPos(objects[i]) = t
                        /\ IsSome(objects[i].fighter)
                        /\ i # PLAYER_ID}
            IN  at # {} /\ id = (CHOOSE i \in at : \A j \in at : i <= j)}

CastConfuse(st, fov) ==
    LET st0 == AddMessage(st, "Left-click an enemy to confuse it, or right-click to cancel.")
    IN  {[st |-> AddMessage(st0, "No enemy is close enough to strike."),
          result |-> "Cancelled"]}
        \cup
        {[st |-> AddMessage(
                    [st0 EXCEPT !.objects[monster_id].ai =
                        Some(AiConfused(IF IsSome(@) THEN Unwrap(@) ELSE AiBasic,
                                        CONFUSE_NUM_TURNS))],
                    "The eyes look vacant, as he starts to stumble around!"),
          result |-> "UsedUp"] :
            monster_id \in TargetMonsters(fov, st.objects, Some(CONFUSE_RANGE))}

\* The loop of cast_fireball crediting the xp of every death, the player's
\* own included.
RECURSIVE FireballScanCreditsAll(_, _, _, _, _)
FireballScanCreditsAll(st, x, y, id, xp_to_gain) ==
    IF id > Len(st.objects) THEN [st |-> st, xp_to_gain |-> xp_to_gain]
    ELSE LET o == st.objects[id]
         IN  IF /\ Dist2(o.x, o.y, x, y) <= FIREBALL_RADIUS * FIREBALL_RADIUS
                /\ IsSome(o.fighter)
             THEN LET r == TakeDamage(AddMessage(st, "gets burned for hit points"),
                                      id, FIREBALL_DAMAGE)
                  IN  FireballScanCreditsAll(r.st, x, y, id + 1,
                        IF IsSome(r.xp)
                        THEN xp_to_gain + Unwrap(r.xp) ELSE xp_to_gain)
             ELSE FireballScanCreditsAll(st, x, y, id + 1, xp_to_gain)

\* The loop of cast_fireball over the entities, by index: [st, xp_to_gain].
RECURSIVE FireballScan(_, _, _, _, _)
FireballScan(st, x, y, id, xp_to_gain) ==
    IF id > Len(st.objects) THEN [st |-> st, xp_to_gain |-> xp_to_gain]
    ELSE LET o == st.objects[id]
         IN  IF /\ Dist2(o.x, o.y, x, y) <= FIREBALL_RADIUS * FIREBALL_RADIUS
                /\ IsSome(o.fighter)
             THEN LET r == TakeDamage(AddMessage(st, "gets burned for hit points"),
                                      id, FIREBALL_DAMAGE)
                  IN  FireballScan(r.st, x, y, id + 1,
                        IF IsSome(r.xp) /\ id # PLAYER_ID
                        THEN xp_to_gain + Unwrap(r.xp) ELSE xp_to_gain)
             ELSE FireballScan(st, x, y, id + 1, xp_to_gain)

CastFireball(st, fov) ==
    LET st0 == AddMessage(st, "Left-click a target tile to strike, right-click to cancel.")
    IN  {[st |-> st0, result |-> "Cancelled"]}
        \cup
        {LET r == FireballScan(
                    [AddMessage(st0, "The fireball explodes") EXCEPT
                        !.calls = Append(@, [fn |-> "cast_fireball",
                                             x |-> t[1], y |-> t[2]])],
                    t[1], t[2], 1, 0)
         IN  [st |-> IF r.xp_to_gain > 0
                     THEN [r.st EXCEPT
                             !.objects[PLAYER_ID].fighter[1].xp = @ + r.xp_to_gain]
                     ELSE r.st,
              result |-> "UsedUp"] :
            t \in TargetTiles(fov, st.objects, None)}

OnUse(item, st, inventory_id, fov) ==
    CASE item = "Heal" -> CastHeal(st)
      [] item = "Lightning" -> CastLightning(st, fov)
      [] item = "Confuse" -> CastConfuse(st, fov)
      [] item = "Fireball" -> CastFireball(st, fov)
      [] OTHER -> ToggleEquipment(st, inventory_id)

\* The record of a use_item call and of the result its effect returned.
Used(st, inventory_id, result) ==
    [st EXCEPT !.calls = Append(@, [fn |-> "use_item",
                                    inventory_id |-> inventory_id,
                                    result |-> result])]

\* use_item destroying the item with swap_remove.
UseItemSwapRemoves(st, inventory_id, fov) ==
    IF IsSome(st.inventory[inventory_id].item)
    THEN {Used(CASE r.result = "UsedUp" ->
                        [r.st EXCEPT !.inventory = SwapRemove(@, inventory_id)]
                 [] r.result = "UsedAndKept" -> r.st
                 [] OTHER -> AddMessage(r.st, "Cancelled"),
               inventory_id, r.result) :
          r \in OnUse(Unwrap(st.inventory[inventory_id].item), st, inventory_id, fov)}
    ELSE {AddMessage(st, "cannot be used.")}

\* The set of states after use_item(inventory_id).
UseItem(st, inventory_id, fov) ==
    IF IsSome(st.inventory[inventory_id].item)
    THEN {Used(CASE r.result = "UsedUp" ->
                        [r.st EXCEPT !.inventory = Remove(@, inventory_id)]
                 [] r.result = "UsedAndKept" -> r.st
                 [] OTHER -> AddMessage(r.st, "Cancelled"),
               inventory_id, r.result) :
          r \in OnUse(Unwrap(st.inventory[inventory_id].item), st, inventory_id, fov)}
    ELSE {AddMessage(st, "cannot be used.")}

(***************************************************************************)
(* Levelling and the descent.                                              *)
(***************************************************************************)
LevelUpXp(player) == LEVEL_UP_BASE + player.level * LEVEL_UP_FACTOR

\* The experience test with > for >=.
NeedsLevelUpStrict(player) ==
    (IF IsSome(player.fighter) THEN Unwrap(player.fighter).xp ELSE 0)
        > LevelUpXp(player)

NeedsLevelUp(player) ==
    (IF IsSome(player.fighter) THEN Unwrap(player.fighter).xp ELSE 0)
        >= LevelUpXp(player)

\* level_up, with the answer (0, 1 or 2) the menu loop ends with.
LevelUp(st, choice) ==
    LET player == st.objects[PLAYER_ID]
        level_up_xp == LevelUpXp(player)
    IN  IF NeedsLevelUp(player)
        THEN LET st1 == AddMessage([st EXCEPT !.objects[PLAYER_ID].level = @ + 1],
                            "Your battle skills grow stronger!")
                 st2 == [st1 EXCEPT !.objects[PLAYER_ID].fighter[1].xp = @ - level_up_xp]
             IN  CASE choice = 0 ->
                        [st2 EXCEPT !.objects[PLAYER_ID].fighter[1].base_max_hp = @ + 20,
                                    !.objects[PLAYER_ID].fighter[1].hp = @ + 20]
                   [] choice = 1 ->
                        [st2 EXCEPT !.objects[PLAYER_ID].fighter[1].base_power = @ + 1]
                   [] OTHER ->
                        [st2 EXCEPT !.objects[PLAYER_ID].fighter[1].base_defense = @ + 1]
        ELSE st

\* The set of [st, map, panic] after next_level.
NextLevel(st, level, tables, gs) ==
    LET st1 == AddMessage(st, "You descend down further into the crypt")
        heal_hp == MaxHp(st1.objects[PLAYER_ID], st1.inventory) \div 2
        st2 == Heal(st1, PLAYER_ID, heal_hp)
    IN  {[st |-> [st2 EXCEPT !.objects = m.objects,
                             !.calls = (@ \o Carved(m.rooms)) \o m.spawns],
          map |-> m.map, panic |-> m.panic] :
            m \in MakeMap(st2.objects, level + 1, tables, gs)}

(***************************************************************************)
(* The state of a running game and the loop of play_game.                  *)
(*   game_settings, tables   GameSettings and the loaded spawn tables      *)
(*   pc        "tick": at the top of the loop; "keys": level_up done,      *)
(*             handle_keys next; "monsters": handle_keys has returned      *)
(*             player_action, the monsters' turn next; "exited": after     *)
(*             Exit; "panic": the program died                             *)
(*   fov       the tiles the FovMap has in view                            *)
(* The window is taken to stay open.                                       *)
(***************************************************************************)
VARIABLES objects, inventory, map, dungeon_level, messages, calls, fov,
          previous_player_position, pc, player_action, game_settings,
          tables

vars == <<objects, inventory, map, dungeon_level, messages, calls, fov,
          previous_player_position, pc, player_action, game_settings,
          tables>>

St == [objects |-> objects, inventory |-> inventory, messages |-> <<>>,
       calls |-> <<>>]

SetSt(st) ==
    /\ objects' = st.objects
    /\ inventory' = st.inventory
    /\ messages' = st.messages
    /\ calls' = st.calls

\* new_game with the given settings and tables, then the entry of play_game.
NewGame(gs, t) ==
    \E m \in MakeMap(<<NewPlayer>>, 1, t, gs) :
        /\ objects = m.objects
        /\ map = m.map
        /\ inventory = << Dagger >>
        /\ dungeon_level = 1
        /\ messages = << "Welcome stranger!" >>
        /\ calls = Carved(m.rooms) \o m.spawns
        /\ fov = {}
        /\ previous_player_position = <<-1, -1>>
        /\ pc = IF m.panic THEN "panic" ELSE "tick"
        /\ player_action = "None"
        /\ game_settings = gs
        /\ tables = t

\* The top of the loop: render_all (which recomputes the field of view when
\* the player has moved), level_up, previous_player_position.
TickStart ==
    /\ pc = "tick"
    /\ fov' = IF previous_player_position # GetPos(objects[PLAYER_ID])
              THEN ComputeFov(game_settings, objects[PLAYER_ID].x,
                              objects[PLAYER_ID].y)
              ELSE fov
    /\ \E choice \in 0..2 : SetSt(LevelUp(St, choice))
    /\ previous_player_position' = GetPos(objects[PLAYER_ID])
    /\ pc' = "keys"
    /\ player_action' = "None"
    /\ UNCHANGED <<map, dungeon_level, game_settings, tables>>

\* What play_game does with the result of handle_keys.
EndHandleKeys(st, action) ==
    /\ SetSt(st)
    /\ player_action' = action
    /\ pc' = IF action = "Exit" THEN "exited" ELSE "monsters"
    /\ UNCHANGED <<fov, previous_player_position, game_settings, tables>>

Alive == objects[PLAYER_ID].alive

\* The movement keys with a key that moves by (0, 0) among them.
DirectionsWithStay == {<<0, 0>>, <<0, -1>>, <<0, 1>>, <<-1, 0>>, <<1, 0>>,
                       <<-1, -1>>, <<1, -1>>, <<-1, 1>>, <<1, 1>>}

Directions == {<<0, -1>>, <<0, 1>>, <<-1, 0>>, <<1, 0>>,
               <<-1, -1>>, <<1, -1>>, <<-1, 1>>, <<1, 1>>}

KeyFullscreen ==
    /\ pc = "keys"
    /\ EndHandleKeys(St, "DidntTakeTurn")
    /\ UNCHANGED <<map, dungeon_level>>

KeyEscape ==
    /\ pc = "keys"
    /\ EndHandleKeys(St, "Exit")
    /\ UNCHANGED <<map, dungeon_level>>

\* A movement key that takes no turn when it neither moved nor attacked.
KeyMoveBlockedIsFree ==
    /\ pc = "keys" /\ Alive
    /\ \E d \in Directions :
        LET st == PlayerMoveOrAttack(St, d[1], d[2], map)
        IN  EndHandleKeys(st, IF st = St THEN "DidntTakeTurn" ELSE "TookTurn")
    /\ UNCHANGED <<map, dungeon_level>>

KeyMove ==
    /\ pc = "keys" /\ Alive
    /\ \E d \in Directions :
        EndHandleKeys(PlayerMoveOrAttack(St, d[1], d[2], map), "TookTurn")
    /\ UNCHANGED <<map, dungeon_level>>

KeyWait ==
    /\ pc = "keys" /\ Alive
    /\ EndHandleKeys(St, "TookTurn")
    /\ UNCHANGED <<map, dungeon_level>>

\* The first entity on the player's tile that is an item, as an Option.
ItemUnderPlayer(objs) ==
    LET at == {i \in 1..Len(objs) :
                GetPos(objs[i]) = GetPos(objs[PLAYER_ID]) /\ IsSome(objs[i].item)}
    IN  IF at = {} THEN None ELSE Some(CHOOSE i \in at : \A j \in at : i <= j)

KeyPickUp ==
    /\ pc = "keys" /\ Alive
    /\ LET item_id == ItemUnderPlayer(objects)
       IN  EndHandleKeys(IF IsSome(item_id) THEN PickItemUp(St, Unwrap(item_id))
                         ELSE St, "DidntTakeTurn")
    /\ UNCHANGED <<map, dungeon_level>>

\* inventory_menu: None, or the index of an entry.
InventoryMenu(inv) == {None} \cup {Some(i) : i \in 1..Len(inv)}

KeyInventory ==
    /\ pc = "keys" /\ Alive
    /\ \E inv_index \in InventoryMenu(inventory) :
        IF IsSome(inv_index)
        THEN \E st \in UseItem(St, Unwrap(inv_index), fov) :
                EndHandleKeys(st, "TookTurn")
        ELSE EndHandleKeys(St, "TookTurn")
    /\ UNCHANGED <<map, dungeon_level>>

KeyDrop ==
    /\ pc = "keys" /\ Alive
    /\ \E inventory_index \in InventoryMenu(inventory) :
        EndHandleKeys(IF IsSome(inventory_index)
                      THEN DropItem(St, Unwrap(inventory_index)) ELSE St,
                      "DidntTakeTurn")
    /\ UNCHANGED <<map, dungeon_level>>

\* The test of the "<" key taking every tile for the stairs.
PlayerOnStairsAnywhere(objs) == Len(objs) >= 1

PlayerOnStairs(objs) ==
    \E i \in 1..Len(objs) :
        GetPos(objs[i]) = GetPos(objs[PLAYER_ID]) /\ objs[i].name = "stairs"

KeyStairs ==
    /\ pc = "keys" /\ Alive
    /\ IF PlayerOnStairs(objects)
       THEN /\ dungeon_level < MaxDungeonLevel
            /\ \E r \in NextLevel(St, dungeon_level, tables, game_settings) :
                /\ SetSt(r.st)
                /\ map' = r.map
                /\ dungeon_level' = dungeon_level + 1
                /\ player_action' = "DidntTakeTurn"
                /\ pc' = IF r.panic THEN "panic" ELSE "monsters"
                /\ UNCHANGED <<fov, previous_player_position, game_settings,
                               tables>>
       ELSE /\ EndHandleKeys(St, "DidntTakeTurn")
            /\ UNCHANGED <<map, dungeon_level>>

KeyCharacter ==
    /\ pc = "keys" /\ Alive
    /\ EndHandleKeys(St, "DidntTakeTurn")
    /\ UNCHANGED <<map, dungeon_level>>

\* Any other key, no key at all, and every key but Escape and Alt+Enter
\* once the player is dead.
KeyOther ==
    /\ pc = "keys"
    /\ EndHandleKeys(St, "DidntTakeTurn")
    /\ UNCHANGED <<map, dungeon_level>>

\* The loop over the entities, from index id to index last: the set of
\* states it can end in, from any state of S.
RECURSIVE MonsterLoop(_, _, _, _, _)
MonsterLoop(S, id_, last, fov_, map_) ==
    IF id_ > last THEN S
    ELSE MonsterLoop(UNION {IF IsSome(st.objects[id_].ai)
                            THEN AiTakeTurn(st, id_, fov_, map_)
                            ELSE {st} : st \in S},
                     id_ + 1, last, fov_, map_)

\* The monsters' turn without the test of the player's action.
MonstersTurnAnyAction ==
    /\ pc = "monsters"
    /\ IF objects[PLAYER_ID].alive
       THEN \E st \in MonsterLoop({St}, 1, Len(objects), fov, map) : SetSt(st)
       ELSE SetSt(St)
    /\ pc' = "tick"
    /\ player_action' = "None"
    /\ UNCHANGED <<map, dungeon_level, fov, previous_player_position,
                   game_settings, tables>>

\* "let monsters take their turn", and the end of the loop body.
MonstersTurn ==
    /\ pc = "monsters"
    /\ IF objects[PLAYER_ID].alive /\ player_action # "DidntTakeTurn"
       THEN \E st \in MonsterLoop({St}, 1, Len(objects), fov, map) : SetSt(st)
       ELSE SetSt(St)
    /\ pc' = "tick"
    /\ player_action' = "None"
    /\ UNCHANGED <<map, dungeon_level, fov, previous_player_position,
                   game_settings, tables>>

Next ==
    \/ TickStart
    \/ KeyFullscreen
    \/ KeyEscape
    \/ KeyMove
    \/ KeyWait
    \/ KeyPickUp
    \/ KeyInventory
    \/ KeyDrop
    \/ KeyStairs
    \/ KeyCharacter
    \/ KeyOther
    \/ MonstersTurn

DefaultSettings ==
    GameSettings(MapW, MapH, RoomMinSize, RoomMaxSize, MaxRooms, TorchRadius)

Init == NewGame(DefaultSettings, Some(Tables))

Spec == Init /\ [][Next]_vars

(***************************************************************************)
(* A longer corridor with room for two monster dens and no items to find:  *)
(* the orcs' experience value is above the first level-up threshold.       *)
(***************************************************************************)
FightTables ==
    TransitionTables(<< Transition(1, 1) >>, << Transition(1, 0) >>,
        << Monster("orc", 8, 0, 39, 550, << Transition(1, 1) >>) >>,
        << Scroll("fireball scroll", "Fireball", << Transition(1, 1) >>) >>)

FightSettings ==
    GameSettings(FightMapW, MapH, RoomMinSize, RoomMaxSize, FightMaxRooms,
                 TorchRadius)

InitFight == NewGame(FightSettings, Some(FightTables))

\* The player neither descends nor drops the dagger.
NextFight ==
    \/ TickStart
    \/ KeyFullscreen
    \/ KeyEscape
    \/ KeyMove
    \/ KeyWait
    \/ KeyPickUp
    \/ KeyInventory
    \/ KeyCharacter
    \/ KeyOther
    \/ MonstersTurn

SpecFight == InitFight /\ [][NextFight]_vars

(***************************************************************************)
(* The short corridor with confuse scrolls on level 1 and harmless orcs    *)
(* from level 2 on.                                                        *)
(***************************************************************************)
ConfuseTables ==
    TransitionTables(<< Transition(1, 0), Transition(2, 1) >>,
                     << Transition(1, 1), Transition(2, 0) >>,
        << Monster("orc", 8, 0, 1, 35, << Transition(1, 1) >>) >>,
        << Scroll("confuse scroll", "Confuse", << Transition(1, 1) >>) >>)

InitConfuse == NewGame(DefaultSettings, Some(ConfuseTables))

SpecConfuse == InitConfuse /\ [][Next]_vars

(***************************************************************************)
(* The short corridor with a store room of up to StoreMaxItems healing     *)
(* potions on level 1 and no monsters.  The player hoards: an entry is     *)
(* dropped only from an inventory of more than StoreKeep entries, and only *)
(* onto a tile where an item lies.                                         *)
(***************************************************************************)
StoreTables ==
    TransitionTables(<< Transition(1, 0) >>,
                     << Transition(1, StoreMaxItems), Transition(2, 0) >>,
        << Monster("orc", 8, 0, 1, 35, << Transition(1, 1) >>) >>,
        << Scroll("healing potion", "Heal", << Transition(1, 1) >>) >>)

InitStore == NewGame(DefaultSettings, Some(StoreTables))

KeyDropHoarded ==
    /\ Len(inventory) > StoreKeep
    /\ IsSome(ItemUnderPlayer(objects))
    /\ KeyDrop

NextStore ==
    \/ TickStart
    \/ KeyFullscreen
    \/ KeyEscape
    \/ KeyMove
    \/ KeyWait
    \/ KeyPickUp
    \/ KeyInventory
    \/ KeyDropHoarded
    \/ KeyStairs
    \/ KeyCharacter
    \/ KeyOther
    \/ MonstersTurn

SpecStore == InitStore /\ [][NextStore]_vars

(***************************************************************************)
(* The short corridor with an armoury of up to ArmouryMaxItems items on    *)
(* level 1 and no monsters: swords whose template is marked equipped,      *)
(* helmets that raise max_hp, and healing potions.                         *)
(***************************************************************************)
Gear(name, item, equipment, weights) ==
    ObjectConfiguration(name, weights, None, None, Some(item), Some(equipment))

EquipTables ==
    TransitionTables(<< Transition(1, 0) >>,
                     << Transition(1, ArmouryMaxItems), Transition(2, 0) >>,
        << Monster("orc", 8, 0, 1, 35, << Transition(1, 1) >>) >>,
        << Gear("sword", "Sword", NewEquipment("LeftHand", TRUE, 0, 0, 2),
                << Transition(1, 1) >>),
           Gear("helmet", "Helmet", NewEquipment("Head", FALSE, 20, 0, 0),
                << Transition(1, 1) >>),
           Scroll("healing potion", "Heal", << Transition(1, 1) >>) >>)

InitEquip == NewGame(DefaultSettings, Some(EquipTables))

\* The player drops entries only in the armoury, on the tile of the stairs,
\* and does not descend.
KeyDropArmoury ==
    /\ PlayerOnStairs(objects)
    /\ KeyDrop

NextEquip ==
    \/ TickStart
    \/ KeyFullscreen
    \/ KeyEscape
    \/ KeyMove
    \/ KeyWait
    \/ KeyPickUp
    \/ KeyInventory
    \/ KeyDropArmoury
    \/ KeyCharacter
    \/ KeyOther
    \/ MonstersTurn

SpecEquip == InitEquip /\ [][NextEquip]_vars

(***************************************************************************)
(* The longer corridor seen from further away (a torch radius above the    *)
(* fireball's), with fireball scrolls to find on level 1 and orc dens on   *)
(* level 2.  The player does not drop anything.                            *)
(***************************************************************************)
BurnTables ==
    TransitionTables(<< Transition(1, 0), Transition(2, 1) >>,
                     << Transition(1, 1), Transition(2, 0) >>,
        << Monster("orc", 8, 0, 39, 35, << Transition(1, 1) >>) >>,
        << Scroll("fireball scroll", "Fireball", << Transition(1, 1) >>) >>)

BurnSettings ==
    GameSettings(FightMapW, MapH, RoomMinSize, RoomMaxSize, MaxRooms,
                 BurnTorchRadius)

InitBurn == NewGame(BurnSettings, Some(BurnTables))

NextBurn ==
    \/ TickStart
    \/ KeyFullscreen
    \/ KeyEscape
    \/ KeyMove
    \/ KeyWait
    \/ KeyPickUp
    \/ KeyInventory
    \/ KeyStairs
    \/ KeyCharacter
    \/ KeyOther
    \/ MonstersTurn

SpecBurn == InitBurn /\ [][NextBurn]_vars

(***************************************************************************)
(* A cave of BoltMapW x BoltMapH tiles, where two rooms can lie five       *)
(* columns and one row apart, lit BoltTorchRadius tiles far: lightning     *)
(* scrolls to find on level 1 and dens of harmless orcs on level 2.  The   *)
(* player does not drop anything.                                          *)
(***************************************************************************)
BoltTables ==
    TransitionTables(<< Transition(1, 0), Transition(2, 1) >>,
                     << Transition(1, 1), Transition(2, 0) >>,
        << Monster("orc", 8, 0, 1, 35, << Transition(1, 1) >>) >>,
        << Scroll("lightning scroll", "Lightning", << Transition(1, 1) >>) >>)

BoltSettings ==
    GameSettings(BoltMapW, BoltMapH, RoomMinSize, RoomMaxSize, MaxRooms,
                 BoltTorchRadius)

InitBolt == NewGame(BoltSettings, Some(BoltTables))

SpecBolt == InitBolt /\ [][NextBurn]_vars

(***************************************************************************)
(* The dungeon generator on a cave of CaveMapW x CaveMapH tiles with rooms *)
(* of RoomMinSize to CaveRoomMaxSize tiles a side, for every max_rooms     *)
(* from 0 to CaveMaxRooms; nothing is spawned.  The player waits for the   *)
(* tick and takes the stairs when standing on them.                        *)
(***************************************************************************)
CaveTables ==
    TransitionTables(<< Transition(1, 0) >>, << Transition(1, 0) >>,
        << Monster("orc", 8, 0, 1, 35, << Transition(1, 1) >>) >>,
        << Scroll("healing potion", "Heal", << Transition(1, 1) >>) >>)

CaveSettings(max_rooms) ==
    GameSettings(CaveMapW, CaveMapH, RoomMinSize, CaveRoomMaxSize, max_rooms,
                 TorchRadius)

InitCave ==
    \E max_rooms \in 0..CaveMaxRooms :
        NewGame(CaveSettings(max_rooms), Some(CaveTables))

NextCave ==
    \/ TickStart
    \/ KeyStairs
    \/ MonstersTurn

SpecCave == InitCave /\ [][NextCave]_vars

(***************************************************************************)
(* equip() and dequip() on their own: an inventory of up to GearMaxLen     *)
(* entities drawn from GearInputs (an entity with no item facet, an item   *)
(* with no equipment facet, and equipment of each slot, equipped and not), *)
(* and the two methods called on its entries in any order.  calls holds    *)
(* the call the step made.                                                 *)
(***************************************************************************)
GearInputs ==
    {Stairs(0, 0),
     AsObject(Scroll("healing potion", "Heal", <<>>), 0, 0)}
    \cup
    {AsObject(Gear(g[1], g[2], NewEquipment(g[3], equipped, 0, 0, 1), <<>>), 0, 0) :
        g \in {<<"dagger", "Sword", "LeftHand">>,
               <<"shield", "Shield", "RightHand">>,
               <<"helmet", "Helmet", "Head">>},
        equipped \in BOOLEAN}

InitGear ==
    /\ objects = << NewPlayer >>
    /\ map = {}
    /\ inventory \in UNION {[1..n -> GearInputs] : n \in 1..GearMaxLen}
    /\ dungeon_level = 1
    /\ messages = <<>>
    /\ calls = <<>>
    /\ fov = {}
    /\ previous_player_position = <<-1, -1>>
    /\ pc = "gear"
    /\ player_action = "None"
    /\ game_settings = DefaultSettings
    /\ tables = None

EquipEntry ==
    /\ pc = "gear"
    /\ \E index \in 1..Len(inventory) :
            SetSt([EquipInventory(St, index) EXCEPT
                    !.calls = << [fn |-> "equip", self |-> index] >>])
    /\ UNCHANGED <<map, dungeon_level, fov, previous_player_position, pc,
                   player_action, game_settings, tables>>

DequipEntry ==
    /\ pc = "gear"
    /\ \E index \in 1..Len(inventory) :
            SetSt([DequipInventory(St, index) EXCEPT
                    !.calls = << [fn |-> "dequip", self |-> index] >>])
    /\ UNCHANGED <<map, dungeon_level, fov, previous_player_position, pc,
                   player_action, game_settings, tables>>

NextGear ==
    \/ EquipEntry
    \/ DequipEntry

SpecGear == InitGear /\ [][NextGear]_vars

(***************************************************************************)
(* The same cave with no settings.json to read: main leaves tables at None *)
(* and the game starts all the same, for every max_rooms from 1 to         *)
(* CaveMaxRooms.                                                           *)
(***************************************************************************)
InitBare ==
    \E max_rooms \in 1..CaveMaxRooms :
        NewGame(CaveSettings(max_rooms), None)

SpecBare == InitBare /\ [][Next]_vars

(***************************************************************************)
(* The spawner at work: a cave of SpawnMapW x SpawnMapH tiles with two     *)
(* tries for rooms of RoomMinSize to CaveRoomMaxSize tiles a side, so that *)
(* a second room has an interior of one, two or four tiles; up to one orc  *)
(* a room on level 1 and up to SpawnMaxMonsters from level 2 on, and up to *)
(* SpawnMaxItems healing potions a room.  The player waits for the tick    *)
(* and takes the stairs when standing on them.                             *)
(***************************************************************************)
SpawnTables ==
    TransitionTables(<< Transition(1, 1), Transition(2, SpawnMaxMonsters) >>,
                     << Transition(1, SpawnMaxItems) >>,
        << Monster("orc", 8, 0, 1, 35, << Transition(1, 1) >>) >>,
        << Scroll("healing potion", "Heal", << Transition(1, 1) >>) >>)

SpawnSettings ==
    GameSettings(SpawnMapW, SpawnMapH, RoomMinSize, CaveRoomMaxSize, MaxRooms,
                 TorchRadius)

InitSpawn == NewGame(SpawnSettings, Some(SpawnTables))

SpecSpawn == InitSpawn /\ [][NextCave]_vars

(***************************************************************************)
(* The short corridor with a settings.json whose one monster template has  *)
(* the name "player" (hp 8 and a base power of 0), and nothing to find.    *)
(***************************************************************************)
NamesakeTables ==
    TransitionTables(<< Transition(1, 1) >>, << Transition(1, 0) >>,
        << Monster("player", 8, 0, 0, 35, << Transition(1, 1) >>) >>,
        << Scroll("healing potion", "Heal", << Transition(1, 1) >>) >>)

InitNamesake == NewGame(DefaultSettings, Some(NamesakeTables))

SpecNamesake == InitNamesake /\ [][Next]_vars

(***************************************************************************)
(* from_dungeon_level on its own: a table of up to LookupMaxLen entries,   *)
(* in any order, held as the max_monsters table, and the function called   *)
(* on it for every level from 0 to LookupMaxLevel.  calls holds the call   *)
(* the step made and what it returned.                                     *)
(***************************************************************************)
LookupEntries == {Transition(level, value) : level \in {1, 4, 7},
                                             value \in {2, 5, 10}}

InitLookup ==
    /\ objects = << NewPlayer >>
    /\ map = {}
    /\ inventory = <<>>
    /\ dungeon_level = 1
    /\ messages = <<>>
    /\ calls = <<>>
    /\ fov = {}
    /\ previous_player_position = <<-1, -1>>
    /\ pc = "lookup"
    /\ player_action = "None"
    /\ game_settings = DefaultSettings
    /\ \E table \in UNION {[1..n -> LookupEntries] : n \in 0..LookupMaxLen} :
            tables = Some(TransitionTables(table, <<>>, <<>>, <<>>))

Lookup ==
    /\ pc = "lookup"
    /\ \E level \in 0..LookupMaxLevel :
            calls' = << [fn |-> "from_dungeon_level", level |-> level,
                         ret |-> FromDungeonLevel(Unwrap(tables).max_monsters,
                                                  level)] >>
    /\ UNCHANGED <<objects, inventory, map, dungeon_level, messages, fov,
                   previous_player_position, pc, player_action, game_settings,
                   tables>>

SpecLookup == InitLookup /\ [][Lookup]_vars

(***************************************************************************)
(* A corridor of ReachMapW tiles lit ReachTorchRadius tiles far, where a   *)
(* monster in view can stand more than CONFUSE_RANGE tiles from the        *)
(* player: confuse scrolls on level 1 and harmless orcs from level 2 on.   *)
(* The player does not drop anything.                                      *)
(***************************************************************************)
ReachSettings ==
    GameSettings(ReachMapW, MapH, RoomMinSize, RoomMaxSize, MaxRooms,
                 ReachTorchRadius)

InitReach == NewGame(ReachSettings, Some(ConfuseTables))

SpecReach == InitReach /\ [][NextBurn]_vars

(***************************************************************************)
(* The short corridor with up to two confuse scrolls on level 1 and a den  *)
(* of one harmless orc on level 2, so that a confused orc can be confused  *)
(* again.  The player does not drop anything.  The loop of play_game goes  *)
(* on from its top to handle_keys, and from the return of handle_keys to   *)
(* the monsters' turn, without waiting for input.                          *)
(***************************************************************************)
NestTables ==
    TransitionTables(<< Transition(1, 0), Transition(2, 1) >>,
                     << Transition(1, 2), Transition(2, 0) >>,
        << Monster("orc", 8, 0, 1, 35, << Transition(1, 1) >>) >>,
        << Scroll("confuse scroll", "Confuse", << Transition(1, 1) >>) >>)

InitNest == NewGame(DefaultSettings, Some(NestTables))

SpecNest ==
    /\ InitNest /\ [][NextBurn]_vars
    /\ WF_vars(TickStart) /\ WF_vars(MonstersTurn)

(***************************************************************************)
(* The short corridor with the orc dens of the fight on every level: the   *)
(* player reaches the stairs wounded and with experience.                  *)
(***************************************************************************)
InitDescent == NewGame(DefaultSettings, Some(FightTables))

SpecDescent == InitDescent /\ [][Next]_vars

(***************************************************************************)
(* Tables that have nothing to spawn on some level.  Barren: harmless rats *)
(* up to level 1 (the monster cap is 0 from level 2 on) and fireball       *)
(* scrolls whose weight is 0 from level 2 on.  Empty: the same with no     *)
(* monster template at all.                                                *)
(***************************************************************************)
BarrenTables ==
    TransitionTables(<< Transition(1, 1), Transition(2, 0) >>,
                     << Transition(1, 1) >>,
        << Monster("rat", 4, 0, 1, 35, << Transition(1, 1) >>) >>,
        << Scroll("fireball scroll", "Fireball",
                  << Transition(1, 1), Transition(2, 0) >>) >>)

EmptyTables ==
    TransitionTables(BarrenTables.max_monsters, BarrenTables.max_items,
                     << >>, BarrenTables.items)

InitBarren ==
    \E t \in {BarrenTables, EmptyTables} : NewGame(DefaultSettings, Some(t))

SpecBarren == InitBarren /\ [][Next]_vars

(***************************************************************************)
(* Properties.                                                             *)
(***************************************************************************)
IsPlayer(o) == IsSome(o.fighter) /\ Unwrap(o.fighter).on_death = "Player"

IsRemains(o) ==
    \E k \in 1..Len(Unwrap(tables).monsters) :
        o.name = RemainsName(Unwrap(tables).monsters[k].name)

NamedOnFloor(name) == \E i \in 1..Len(objects) : objects[i].name = name

Carried(name) == \E k \in 1..Len(inventory) : inventory[k].name = name

\* The entries of calls made by the function fn, in order.
CallsOf(c, fn) == SelectSeq(c, LAMBDA r : r.fn = fn)

\* C1: in every reachable state the entity list is not empty, its first
\* element (index PLAYER_ID) is the player and no other element is.
C1_PlayerIsFirst ==
    /\ Len(objects) >= 1
    /\ IsPlayer(objects[PLAYER_ID])
    /\ objects[PLAYER_ID].name = "player"
    /\ \A i \in 1..Len(objects) : i # PLAYER_ID => ~IsPlayer(objects[i])

\* On level 2, after a pick-up on level 1, a descent, a fight that left
\* remains and a drop of the dagger.
C1_Witness ==
    /\ dungeon_level = 2
    /\ Carried("fireball scroll")
    /\ NamedOnFloor("dagger")
    /\ NamedOnFloor("remains of orc")

\* The indices of the entities that hold an AI facet, in ascending order.
RECURSIVE AiHolders(_, _)
AiHolders(objs, from) ==
    IF from > Len(objs) THEN <<>>
    ELSE (IF IsSome(objs[from].ai) THEN << from >> ELSE <<>>)
            \o AiHolders(objs, from + 1)

AiResolved(c) ==
    LET r == CallsOf(c, "ai_take_turn") IN [k \in 1..Len(r) |-> r[k].self]

\* C2: the AI resolutions of a step are those of the monsters' turn of a
\* tick whose action is TookTurn and whose player is alive when that turn
\* starts: one resolution for each entity that holds an AI facet, in
\* ascending index order, the player not among them; any other step
\* resolves no AI.
C2_MonsterPhase ==
    [][/\ AiResolved(calls') =
            IF pc = "monsters" /\ player_action = "TookTurn"
                               /\ objects[PLAYER_ID].alive
            THEN AiHolders(objects, 1) ELSE <<>>
       /\ \A k \in 1..Len(AiResolved(calls')) :
            AiResolved(calls')[k] # PLAYER_ID]_vars

\* After a monsters' turn that resolved two monsters, and the first of them
\* first.
C2_Witness ==
    /\ pc = "tick"
    /\ Len(AiResolved(calls)) = 2
    /\ AiResolved(calls)[1] < AiResolved(calls)[2]

\* The damage the first n entries of c record for entity t.
RECURSIVE DamageTo(_, _, _)
DamageTo(c, n, t) ==
    IF n = 0 THEN 0
    ELSE DamageTo(c, n - 1, t)
         + (IF c[n].fn = "take_damage" /\ c[n].self = t /\ c[n].damage > 0
            THEN c[n].damage ELSE 0)

AttackTargets(c) ==
    {c[i].target : i \in {j \in 1..Len(c) : c[j].fn = "attack"}}

\* The attack recorded as entry i of the step's calls, against the state the
\* step started in.
AttackAsClaimed(i) ==
    LET c == calls'
        a == c[i].self
        t == c[i].target
        d == Power(objects[a], inventory) - Defense(objects[t], inventory)
        hp_before == Unwrap(objects[t].fighter).hp - DamageTo(c, i - 1, t)
    IN  /\ IsSome(objects[a].fighter)
        /\ IsSome(objects[t].fighter)
        /\ IF d > 0
           THEN /\ i < Len(c)
                /\ c[i + 1].fn = "take_damage"
                /\ c[i + 1].self = t
                /\ c[i + 1].damage = d
                /\ c[i + 1].hp = Some(hp_before - d)
                /\ (c[i + 1].alive = FALSE) <=> (hp_before - d <= 0)
           ELSE i = Len(c) \/ c[i + 1].fn # "take_damage"

\* What a step's attacks leave of defender t.
DefenderAsClaimed(t) ==
    LET hp_after == Unwrap(objects[t].fighter).hp
                        - DamageTo(calls', Len(calls'), t)
    IN  /\ (objects'[t].alive = FALSE) <=> (hp_after <= 0)
        /\ IsSome(objects'[t].fighter) =>
                Unwrap(objects'[t].fighter).hp = hp_after

\* C3: every attack is between two entities with a fighter facet; with
\* d = attacker's power - defender's defense, an attack with d > 0 makes
\* the defender take exactly d damage, which leaves hp_before - d, and an
\* attack with d <= 0 applies no damage (hp unchanged); after the damage
\* the defender's alive flag is false exactly if the resulting hp is <= 0.
C3_Attack ==
    [][/\ \A i \in 1..Len(calls') :
            calls'[i].fn = "attack" => AttackAsClaimed(i)
       /\ \A t \in AttackTargets(calls') : DefenderAsClaimed(t)]_vars

\* An orc's attack has just brought the player from 50 hp to exactly 0.
C3_Witness ==
    \E i \in 1..Len(calls) :
        /\ calls[i].fn = "take_damage"
        /\ calls[i].self = PLAYER_ID
        /\ i > 1 /\ calls[i - 1].fn = "attack"
        /\ calls[i].damage = 50
        /\ calls[i].hp = Some(0)
        /\ ~objects[PLAYER_ID].alive

\* The entries of c that record damage bringing a monster's hp to <= 0.
Kills(c) ==
    {i \in 1..Len(c) : /\ c[i].fn = "take_damage"
                       /\ c[i].self # PLAYER_ID
                       /\ IsSome(c[i].hp)
                       /\ Unwrap(c[i].hp) <= 0}

RECURSIVE KilledXp(_, _)
KilledXp(c, n) ==
    IF n = 0 THEN 0
    ELSE KilledXp(c, n - 1)
         + (IF n \in Kills(c) THEN Unwrap(objects[c[n].self].fighter).xp ELSE 0)

Mentions(r, m) ==
    \/ r.fn \in {"attack", "take_damage", "ai_take_turn"} /\ r.self = m
    \/ r.fn = "attack" /\ r.target = m

KillAsClaimed(i) ==
    LET c == calls'
        m == c[i].self
    IN  /\ IsSome(objects[m].fighter)
        /\ ~IsRemains(objects[m])
        /\ IsRemains(objects'[m])
        /\ objects'[m].blocks = FALSE
        /\ objects'[m].fighter = None
        /\ objects'[m].ai = None
        /\ c[i].ret = Some(Unwrap(objects[m].fighter).xp)
        /\ (i > 1 /\ c[i - 1].fn = "attack") => c[i - 1].self = PLAYER_ID
        /\ \A j \in (i + 1)..Len(c) : ~Mentions(c[j], m)

\* C4: damage that brings a monster's hp to <= 0 turns it into remains
\* (blocks false, no fighter, no AI) and returns its xp, and the player, who
\* dealt it, gains over the step exactly the xp of the monsters killed in
\* it; remains never block and have neither fighter nor AI, and no attack,
\* damage or AI resolution ever involves them.
C4_MonsterDeath ==
    [][/\ \A i \in 1..Len(objects') :
            IsRemains(objects'[i]) =>
                /\ objects'[i].blocks = FALSE
                /\ objects'[i].fighter = None
                /\ objects'[i].ai = None
       /\ \A i \in Kills(calls') : KillAsClaimed(i)
       /\ \A j \in 1..Len(calls') :
            \A m \in 1..Len(objects) :
                IsRemains(objects[m]) => ~Mentions(calls'[j], m)
       /\ pc # "tick" =>
            Unwrap(objects'[PLAYER_ID].fighter).xp =
                Unwrap(objects[PLAYER_ID].fighter).xp
                    + KilledXp(calls', Len(calls'))]_vars

\* A fireball has just killed an orc (and burned the player).
C4_Witness ==
    /\ pc = "monsters"
    /\ \E i \in Kills(calls) :
            /\ IsRemains(objects[calls[i].self])
            /\ calls[i].damage = FIREBALL_DAMAGE
            /\ calls[i].ret = Some(35)
    /\ Unwrap(objects[PLAYER_ID].fighter).xp = 35

\* C5: in every step taken with the player's alive flag false, other than
\* the quit, no AI is resolved and the entities (the player's position, hp,
\* xp, level and base stats among them), the inventory, the map and the
\* dungeon level stay as they are.
C5_DeadIsInert ==
    [][(~objects[PLAYER_ID].alive /\ pc' # "exited") =>
            /\ objects' = objects
            /\ inventory' = inventory
            /\ map' = map
            /\ dungeon_level' = dungeon_level
            /\ AiResolved(calls') = <<>>]_vars

\* The level-up check of a tick, on the player before (p, f) and after
\* (q, g) it.
LevelUpAsClaimed ==
    LET p == objects[PLAYER_ID]
        f == Unwrap(p.fighter)
        q == objects'[PLAYER_ID]
        g == Unwrap(q.fighter)
        threshold == 50 + p.level * 150
    IN  IF f.xp >= threshold
        THEN /\ q.level = p.level + 1
             /\ g.xp = f.xp - threshold
             /\ g.xp >= 0
             /\ \/ g = [f EXCEPT !.xp = g.xp,
                                 !.base_max_hp = @ + 20, !.hp = @ + 20]
                \/ g = [f EXCEPT !.xp = g.xp, !.base_power = @ + 1]
                \/ g = [f EXCEPT !.xp = g.xp, !.base_defense = @ + 1]
             /\ q = [p EXCEPT !.level = q.level, !.fighter = q.fighter]
        ELSE q = p

\* C6: the level-up check of a tick raises the level exactly if
\* xp >= 50 + level * 150; it then raises it by 1, takes the threshold off
\* the xp (which stays >= 0) and applies one of the three stat changes and
\* nothing else; no other step changes the level.
C6_LevelUp ==
    [][IF pc = "tick" THEN LevelUpAsClaimed
       ELSE objects'[PLAYER_ID].level = objects[PLAYER_ID].level]_vars

\* Right after the check that found xp equal to the threshold of level 2.
C6_Witness ==
    /\ pc = "keys"
    /\ messages = << "Your battle skills grow stronger!" >>
    /\ objects[PLAYER_ID].level = 3
    /\ Unwrap(objects[PLAYER_ID].fighter).xp = 0

IsConfused(o) == IsSome(o.ai) /\ Unwrap(o.ai) # AiBasic

\* Confuse has just been applied to entity m, whose AI was Basic.
ConfuseApplied(m) ==
    /\ pc = "keys"
    /\ m \in 1..Len(objects')
    /\ objects[m].ai = Some(AiBasic)
    /\ IsConfused(objects'[m])

\* The step resolves entity m, confused from Basic, for the k-th time since
\* Confuse set its counter to CONFUSE_NUM_TURNS, every resolution so far
\* having taken 1 off the counter.
KthResolution(m, k) ==
    /\ m \in 1..Len(objects)
    /\ objects[m].ai = Some(AiConfused(AiBasic, CONFUSE_NUM_TURNS - (k - 1)))
    /\ \E j \in 1..Len(calls') :
            calls'[j].fn = "ai_take_turn" /\ calls'[j].self = m

\* The confusion of a Basic monster ends with resolution number last: the
\* counter starts at CONFUSE_NUM_TURNS, each of the resolutions before it
\* leaves the monster confused with the counter 1 lower, and resolution
\* number last leaves it Basic.
ConfusionEndsWith(last) ==
    \A m \in 1..Len(objects) :
        /\ ConfuseApplied(m) =>
                objects'[m].ai = Some(AiConfused(AiBasic, CONFUSE_NUM_TURNS))
        /\ \A k \in 1..(last - 1) :
                KthResolution(m, k) =>
                    objects'[m].ai =
                        Some(AiConfused(AiBasic, CONFUSE_NUM_TURNS - k))
        /\ KthResolution(m, last) => objects'[m].ai = Some(AiBasic)

\* C7 as claimed: with CONFUSE_NUM_TURNS = 10, a monster confused from
\* Basic is Confused after each of its resolutions 1 to 10 and Basic after
\* resolution 11.
C7_RestoredOn11th == [][ConfusionEndsWith(11)]_vars

\* C7, the count the code keeps: with CONFUSE_NUM_TURNS = 10, a monster
\* confused from Basic is Confused after each of its resolutions 1 to 11
\* (the counter going from 10 to -1) and Basic after resolution 12.
C7_RestoredOn12th == [][ConfusionEndsWith(12)]_vars

\* A monster that is alive has an AI facet.
AliveMonstersHaveAi(objs) ==
    \A i \in 1..Len(objs) :
        (i # PLAYER_ID /\ objs[i].alive /\ IsSome(objs[i].fighter))
            => IsSome(objs[i].ai)

\* C8: every entity an ai_take_turn call resolved has an AI facet after the
\* step, and every monster that is alive (fighter present, alive true) has
\* one, at the start and after every step, confused or not.
C8_AiKept ==
    /\ AliveMonstersHaveAi(objects)
    /\ [][/\ \A j \in 1..Len(calls') :
                calls'[j].fn = "ai_take_turn" =>
                    IsSome(objects'[calls'[j].self].ai)
          /\ AliveMonstersHaveAi(objects')]_vars

\* After a monsters' turn that resolved a confused orc, still confused.
C8_Witness ==
    /\ pc = "tick"
    /\ \E j \in 1..Len(calls) :
            /\ calls[j].fn = "ai_take_turn"
            /\ objects[calls[j].self].alive
            /\ IsConfused(objects[calls[j].self])

\* C9: in every reachable state the inventory holds at most 26 entries.
C9_InventoryBound == Len(inventory) <= 26

\* Right after the pick-up that made the inventory's 26th entry.
C9_Witness ==
    /\ pc = "monsters"
    /\ Len(inventory) = 26
    /\ \E n \in 1..Len(messages) : messages[n] = "You picked up!"

\* C10: the pick-up key pressed over an item with 26 entries in the
\* inventory leaves the entity list (members, order, positions) and the
\* inventory (equipped flags included) as they are and appends exactly one
\* message to the log.
C10_FullPickUpFails ==
    [][(/\ Len(inventory) = 26
        /\ IsSome(ItemUnderPlayer(objects))
        /\ KeyPickUp)
            => /\ objects' = objects
               /\ inventory' = inventory
               /\ Len(messages') = 1
               /\ map' = map
               /\ dungeon_level' = dungeon_level]_vars

\* Right after a pick-up refused with 26 entries in the inventory.
C10_Witness ==
    /\ pc = "monsters"
    /\ Len(inventory) = 26
    /\ player_action = "DidntTakeTurn"
    /\ messages = << "Inventory full, cannot pick up." >>
    /\ IsSome(ItemUnderPlayer(objects))

Slots == {"LeftHand", "RightHand", "Head"}

\* The inventory entries equipped in slot.
EquippedIn(inv, slot) ==
    {k \in 1..Len(inv) : /\ IsSome(inv[k].equipment)
                         /\ Unwrap(inv[k].equipment).equipped
                         /\ Unwrap(inv[k].equipment).slot = slot}

OneEquippedPerSlot(inv) ==
    \A slot \in Slots : Cardinality(EquippedIn(inv, slot)) <= 1

\* C11: in every state reached from new_game by pick-ups, drops and
\* equipment toggles, each slot (LeftHand, RightHand, Head) has at most one
\* inventory entry with equipped = true.
C11_OneEquippedPerSlot == OneEquippedPerSlot(inventory)

\* The step picks up a floor item whose equipment is already equipped.
PicksUpEquipped ==
    /\ pc = "keys"
    /\ IsSome(ItemUnderPlayer(objects))
    /\ IsEquipped(objects[Unwrap(ItemUnderPlayer(objects))])
    /\ Len(inventory') = Len(inventory) + 1

\* C11, what the code keeps: a step from a state with at most one equipped
\* entry per slot leads to such a state, unless it picks up an item that
\* lies on the floor with equipped = true.
C11_UnlessPickedUpEquipped ==
    [][(OneEquippedPerSlot(inventory) /\ ~PicksUpEquipped)
            => OneEquippedPerSlot(inventory')]_vars

\* The step is the call of fn on inventory entry index.
Called(fn, index) == calls' = << [fn |-> fn, self |-> index] >>

\* C12: equip() on an entry whose equipment is equipped leaves the
\* inventory as it is and pushes no message; dequip() on an entry whose
\* equipment is not equipped does the same; and equip() on the entry that
\* the step before called equip() on leaves every entity as that first
\* call left it.
C12_EquipIdempotent ==
    [][\A index \in 1..Len(inventory) :
        LET o == inventory[index]
        IN  /\ (Called("equip", index) /\ IsEquipped(o))
                    => inventory' = inventory /\ messages' = <<>>
            /\ (Called("dequip", index) /\ IsSome(o.item)
                    /\ IsSome(o.equipment) /\ ~IsEquipped(o))
                    => inventory' = inventory /\ messages' = <<>>
            /\ (Called("equip", index)
                    /\ calls = << [fn |-> "equip", self |-> index] >>)
                    => inventory' = inventory /\ objects' = objects]_vars

\* Right after an equip() on the second of two entries that found it
\* equipped and pushed nothing, the first entry being unequipped equipment.
C12_Witness ==
    /\ pc = "gear"
    /\ Len(inventory) = 2
    /\ calls = << [fn |-> "equip", self |-> 2] >>
    /\ IsEquipped(inventory[2])
    /\ IsSome(inventory[1].equipment) /\ ~IsEquipped(inventory[1])
    /\ messages = <<>>

\* use_item(i) with result r took the inventory from inv to inv2.
UseItemAsClaimed(i, r, inv, inv2) ==
    /\ r \in {"UsedUp", "UsedAndKept", "Cancelled"}
    /\ i \in 1..Len(inv)
    /\ IF r = "UsedUp"
       THEN /\ Len(inv2) = Len(inv) - 1
            /\ \A k \in 1..(i - 1) : inv2[k] = inv[k]
            /\ \A k \in i..Len(inv2) : inv2[k] = inv[k + 1]
       ELSE /\ Len(inv2) = Len(inv)
            /\ \A k \in 1..Len(inv) :
                    [inv2[k] EXCEPT !.equipment = inv[k].equipment] = inv[k]

\* C13: a step that calls use_item calls it once; the inventory loses an
\* entry exactly if the effect returned UsedUp, and then the entry used,
\* the others keeping their order; after Cancelled the inventory, the
\* entities and the map are as before and messages were pushed; after
\* UsedAndKept the inventory has the same entries in the same order (their
\* equipped flags apart).
C13_UseItem ==
    [][LET u == CallsOf(calls', "use_item")
       IN  /\ Len(u) <= 1
           /\ Len(u) = 1 =>
                /\ UseItemAsClaimed(u[1].inventory_id, u[1].result,
                                    inventory, inventory')
                /\ u[1].result = "Cancelled" =>
                        /\ inventory' = inventory
                        /\ objects' = objects
                        /\ map' = map
                        /\ Len(messages') >= 1]_vars

\* Right after the use of an entry that was not the last, with result
\* UsedUp: a scroll read with the one found after it still in the pack.
C13_Witness ==
    \E n \in 1..Len(calls) :
        /\ calls[n].fn = "use_item"
        /\ calls[n].result = "UsedUp"
        /\ calls[n].inventory_id = 2
        /\ Len(inventory) = 2
        /\ inventory[1].name = "dagger"
        /\ inventory[2].name = "lightning scroll"

\* The bonus b of item counts while its equipment is equipped.
Bonus(item, b) == IF IsEquipped(item) THEN Unwrap(item.equipment)[b] ELSE 0

\* drop_item(i) took the inventory from inv to inv2 and the entities from
\* objs to objs2.
DropAsClaimed(i, inv, inv2, objs, objs2) ==
    LET item == inv[i]
        dropped == objs2[Len(objs2)]
        p == objs[PLAYER_ID]
    IN  /\ Len(inv2) = Len(inv) - 1
        /\ \A k \in 1..(i - 1) : inv2[k] = inv[k]
        /\ \A k \in i..Len(inv2) : inv2[k] = inv[k + 1]
        /\ Len(objs2) = Len(objs) + 1
        /\ \A k \in 1..Len(objs) : objs2[k] = objs[k]
        /\ GetPos(dropped) = GetPos(p)
        /\ IsSome(item.equipment) =>
                /\ IsSome(dropped.equipment)
                /\ ~Unwrap(dropped.equipment).equipped
        /\ dropped = [item EXCEPT !.x = p.x, !.y = p.y,
                                  !.equipment = dropped.equipment]
        /\ IsSome(item.equipment) =>
                Unwrap(dropped.equipment) =
                    [Unwrap(item.equipment) EXCEPT !.equipped = FALSE]
        /\ MaxHp(objs2[PLAYER_ID], inv2) = MaxHp(p, inv) - Bonus(item, "max_hp_bonus")
        /\ Power(objs2[PLAYER_ID], inv2) = Power(p, inv) - Bonus(item, "power_bonus")
        /\ Defense(objs2[PLAYER_ID], inv2) = Defense(p, inv) - Bonus(item, "defense_bonus")

\* C14: a step that drops inventory entry i takes exactly that entry out
\* of the inventory, the others keeping their order, and appends it to the
\* entity list at the player's position, with equipped = false if it has an
\* equipment facet and otherwise as it was; every other entity stays as it
\* is, and the player's max_hp, power and defense go down by the bonuses
\* the entry gave while equipped.
C14_Drop ==
    [][LET d == CallsOf(calls', "drop_item")
       IN  /\ Len(d) <= 1
           /\ Len(d) = 1 =>
                /\ d[1].inventory_id \in 1..Len(inventory)
                /\ DropAsClaimed(d[1].inventory_id, inventory, inventory',
                                 objects, objects')]_vars

\* Right after the drop of the helmet, equipped, from the middle of the
\* inventory: it lies under the player unequipped and max_hp is 100 again.
C14_Witness ==
    /\ Len(calls) = 1
    /\ calls[1].fn = "drop_item"
    /\ calls[1].inventory_id <= Len(inventory)
    /\ objects[Len(objects)].name = "helmet"
    /\ GetPos(objects[Len(objects)]) = GetPos(objects[PLAYER_ID])
    /\ messages = << "Dequipped.", "You dropped." >>
    /\ MaxHp(objects[PLAYER_ID], inventory) = 100

\* The entities with a fighter facet at Euclidean distance <= 3 of (x, y).
InBlast(objs, x, y) ==
    {i \in 1..Len(objs) : /\ IsSome(objs[i].fighter)
                          /\ Dist2(objs[i].x, objs[i].y, x, y) <= 3 * 3}

\* The fireball recorded as entry n of the step's calls, against the state
\* the step started in.
FireballAsClaimed(n) ==
    LET c == calls'
        hit == InBlast(objects, c[n].x, c[n].y)
        burns == {k \in 1..Len(c) : c[k].fn = "take_damage"}
        p == Unwrap(objects[PLAYER_ID].fighter)
    IN  /\ Len(objects') = Len(objects)
        /\ \A k \in burns :
                /\ k > n
                /\ c[k].self \in hit
                /\ c[k].damage = FIREBALL_DAMAGE
                /\ c[k].hp = Some(Unwrap(objects[c[k].self].fighter).hp
                                    - FIREBALL_DAMAGE)
        /\ \A i \in hit : Cardinality({k \in burns : c[k].self = i}) = 1
        /\ \A i \in 1..Len(objects) :
                i \notin hit =>
                    IF i = PLAYER_ID
                    THEN objects'[i] = [objects[i] EXCEPT
                            !.fighter[1].xp = Unwrap(objects'[i].fighter).xp]
                    ELSE objects'[i] = objects[i]
        /\ PLAYER_ID \in hit =>
                Unwrap(objects'[PLAYER_ID].fighter).hp = p.hp - FIREBALL_DAMAGE
        /\ Unwrap(objects'[PLAYER_ID].fighter).xp
                = p.xp + KilledXp(c, Len(c))

\* C15: a fireball cast on tile (x, y) makes exactly the entities with a
\* fighter facet at Euclidean distance <= 3 of (x, y) take FIREBALL_DAMAGE,
\* once each, the player among them when in reach; every other entity
\* stays as it is; and the player's xp grows by the sum of the xp of the
\* entities other than the player that it killed, so by nothing for the
\* player's own death.
C15_Fireball ==
    [][\A n \in 1..Len(calls') :
            calls'[n].fn = "cast_fireball" => FireballAsClaimed(n)]_vars

\* Right after a fireball that killed the player, who had 35 xp from an orc
\* killed before and 24 hp left: take_damage returned the player's own 35 xp
\* and the player still has 35.
C15_Witness ==
    /\ ~objects[PLAYER_ID].alive
    /\ Unwrap(objects[PLAYER_ID].fighter).xp = 35
    /\ \E n \in 1..Len(calls) : calls[n].fn = "cast_fireball"
    /\ \E k \in 1..Len(calls) :
            /\ calls[k].fn = "take_damage"
            /\ calls[k].self = PLAYER_ID
            /\ calls[k].hp = Some(0)
            /\ calls[k].ret = Some(35)

\* The hostiles (entities other than the player with a fighter and an AI
\* facet) in view, at a squared distance of at most range2 from the player.
Hostiles(objs, fov_, range2) ==
    {i \in 1..Len(objs) :
        /\ i # PLAYER_ID
        /\ IsSome(objs[i].fighter)
        /\ IsSome(objs[i].ai)
        /\ IsInFov(fov_, objs[i].x, objs[i].y)
        /\ Dist2(objs[PLAYER_ID].x, objs[PLAYER_ID].y, objs[i].x, objs[i].y)
                <= range2}

FromPlayer(objs, i) ==
    Dist2(objs[PLAYER_ID].x, objs[PLAYER_ID].y, objs[i].x, objs[i].y)

\* The use of a lightning scroll recorded as entry n of the step's calls,
\* for a reach of squared distance range2: it strikes one of the nearest
\* hostiles in reach and nothing else, and with none in reach it is
\* Cancelled and changes no entity.
LightningAsClaimed(n, range2) ==
    LET c == calls'
        H == Hostiles(objects, fov, range2)
        struck == {k \in 1..Len(c) : c[k].fn = "take_damage"}
    IN  IF H = {}
        THEN /\ c[n].result = "Cancelled"
             /\ struck = {}
             /\ objects' = objects
        ELSE /\ c[n].result = "UsedUp"
             /\ Cardinality(struck) = 1
             /\ \A k \in struck :
                    /\ c[k].self \in H
                    /\ \A j \in H :
                            FromPlayer(objects, c[k].self) <= FromPlayer(objects, j)
                    /\ \A i \in 1..Len(objects) :
                            (i # c[k].self /\ i # PLAYER_ID)
                                => objects'[i] = objects[i]
                    /\ Unwrap(objects'[PLAYER_ID].fighter).hp
                            = Unwrap(objects[PLAYER_ID].fighter).hp

UsesLightning(n) ==
    /\ calls'[n].fn = "use_item"
    /\ inventory[calls'[n].inventory_id].item = Some("Lightning")

\* C16 as claimed: a lightning scroll strikes only a hostile in view at
\* Euclidean distance <= LIGHTNING_RANGE (5) from the player, one of the
\* nearest of those; with no such hostile its use is Cancelled and no
\* entity's hp changes.
C16_Lightning ==
    [][\A n \in 1..Len(calls') :
            UsesLightning(n) =>
                LightningAsClaimed(n, LIGHTNING_RANGE * LIGHTNING_RANGE)]_vars

\* C16, the reach the code keeps: the same statement for the hostiles at a
\* distance below LIGHTNING_RANGE + 1 (a squared distance of at most 35).
C16_LightningBelowSix ==
    [][\A n \in 1..Len(calls') :
            UsesLightning(n) =>
                LightningAsClaimed(n,
                    (LIGHTNING_RANGE + 1) * (LIGHTNING_RANGE + 1) - 1)]_vars

\* The use of a Heal item recorded as entry n of the step's calls.
HealAsClaimed(n) ==
    LET u == calls'[n]
        p == objects[PLAYER_ID]
        hp == Unwrap(p.fighter).hp
        max_hp == MaxHp(p, inventory)
    IN  IF hp = max_hp
        THEN /\ u.result = "Cancelled"
             /\ objects' = objects
             /\ inventory' = inventory
        ELSE /\ u.result = "UsedUp"
             /\ Len(inventory') = Len(inventory) - 1
             /\ Unwrap(objects'[PLAYER_ID].fighter).hp = Min(hp + 12, max_hp)
             /\ Unwrap(objects'[PLAYER_ID].fighter).hp
                    <= MaxHp(objects'[PLAYER_ID], inventory')
             /\ objects' = [objects EXCEPT ![PLAYER_ID].fighter[1].hp =
                                Unwrap(objects'[PLAYER_ID].fighter).hp]

UsesHeal(n) ==
    /\ calls'[n].fn = "use_item"
    /\ inventory[calls'[n].inventory_id].item = Some("Heal")

\* C17: the use of a Heal item is Cancelled, with the entities and the
\* inventory as they were, exactly if the player's hp equals max_hp (base
\* plus the bonuses of the equipped entries); otherwise the item leaves the
\* inventory and the player's hp becomes min(hp + 12, max_hp), which is
\* not above max_hp, nothing else changing.
C17_Heal ==
    [][\A n \in 1..Len(calls') : UsesHeal(n) => HealAsClaimed(n)]_vars

\* Right after a potion that brought the player, wearing the helmet, to the
\* max_hp of 120, from the 112 the potion before had left.
C17_Witness ==
    /\ \E n \in 1..Len(calls) :
            calls[n].fn = "use_item" /\ calls[n].result = "UsedUp"
    /\ messages = << "Your wounds start to feel better!" >>
    /\ Unwrap(objects[PLAYER_ID].fighter).hp = 120
    /\ MaxHp(objects[PLAYER_ID], inventory) = 120
    /\ ~NamedOnFloor("healing potion")
    /\ ~Carried("healing potion")

\* The rooms that the make_map call recorded in c accepted, in order.
RoomsOf(c) ==
    LET r == CallsOf(c, "create_room") IN [k \in 1..Len(r) |-> r[k].room]

\* The tiles create_room carves for room.
Interior(room) ==
    {t \in (0..(game_settings.map_w - 1)) \X (0..(game_settings.map_h - 1)) :
        /\ room.x1 < t[1] /\ t[1] < room.x2
        /\ room.y1 < t[2] /\ t[2] < room.y2}

\* C18: of the rooms a make_map call accepted, no two intersect under the
\* inclusive bounding-box test, and no tile lies in the interior of two.
C18_RoomsApart ==
    LET rooms == RoomsOf(calls)
    IN  \A i, j \in 1..Len(rooms) :
            i # j =>
                /\ ~(/\ rooms[i].x1 <= rooms[j].x2
                     /\ rooms[i].x2 >= rooms[j].x1
                     /\ rooms[i].y1 <= rooms[j].y2
                     /\ rooms[i].y2 >= rooms[j].y1)
                /\ Interior(rooms[i]) \cap Interior(rooms[j]) = {}

\* Right after the descent into a level of three rooms, two of them with a
\* single wall column between their interiors.
C18_Witness ==
    /\ dungeon_level = 2
    /\ Len(RoomsOf(calls)) = 3
    /\ \E i, j \in 1..3 : RoomsOf(calls)[j].x1 = RoomsOf(calls)[i].x2 + 1

\* The tiles of open next to a tile of S (left, right, above, below), with S.
Spread(S, open) ==
    S \cup {t \in open : \E s \in S :
                \/ t[1] = s[1] /\ (t[2] = s[2] + 1 \/ t[2] = s[2] - 1)
                \/ t[2] = s[2] /\ (t[1] = s[1] + 1 \/ t[1] = s[1] - 1)}

\* The tiles that a path of tiles of open leads to from the tiles of S.
RECURSIVE Reachable(_, _)
Reachable(S, open) ==
    IF Spread(S, open) = S THEN S ELSE Reachable(Spread(S, open), open)

\* C19: after make_map the player stands on the centre of the first room
\* it accepted, a tile that is not blocked, and paths of tiles that are not
\* blocked lead from there to every tile of the interior of every accepted
\* room and to the tile of the stairs.
C19_RoomsReachable ==
    LET rooms == RoomsOf(calls)
    IN  rooms # <<>> =>
            LET spawn == << (rooms[1].x1 + rooms[1].x2) \div 2,
                            (rooms[1].y1 + rooms[1].y2) \div 2 >>
                reach == Reachable({spawn} \cap map, map)
            IN  /\ GetPos(objects[PLAYER_ID]) = spawn
                /\ spawn \in map
                /\ \A k \in 1..Len(rooms) :
                        /\ Interior(rooms[k]) # {}
                        /\ Interior(rooms[k]) \subseteq reach
                /\ \E i \in 1..Len(objects) :
                        /\ objects[i].name = "stairs"
                        /\ GetPos(objects[i]) \in reach

\* Right after the generation of a level of three rooms whose stairs are
\* neither in the column nor in the row of the player.
C19_Witness ==
    /\ Len(RoomsOf(calls)) = 3
    /\ \E i \in 1..Len(objects) :
            /\ objects[i].name = "stairs"
            /\ objects[i].x # objects[PLAYER_ID].x
            /\ objects[i].y # objects[PLAYER_ID].y

\* C20: with max_rooms = 0, so that make_map accepts no room, make_map
\* completes and the entity list it leaves holds the player alone, with no
\* stairs.
C20_NoRooms ==
    game_settings.max_rooms = 0 =>
        /\ pc # "panic"
        /\ Len(objects) = 1
        /\ objects[PLAYER_ID].name = "player"
        /\ ~NamedOnFloor("stairs")

\* C21: with no spawn tables loaded, new_game and every make_map complete,
\* and the entity list make_map leaves holds the player and the stairs and
\* nothing else.
C21_NoTables ==
    tables = None =>
        /\ pc # "panic"
        /\ RoomsOf(calls) # <<>> =>
                /\ Len(objects) = 2
                /\ objects[PLAYER_ID].name = "player"
                /\ objects[2].name = "stairs"

\* C21, what the code keeps: with no spawn tables loaded, a make_map that
\* completes has accepted one room only, and then leaves the player and the
\* stairs and nothing else.
C21_SingleRoomOnly ==
    (tables = None /\ pc # "panic" /\ RoomsOf(calls) # <<>>) =>
        /\ Len(RoomsOf(calls)) = 1
        /\ Len(objects) = 2
        /\ objects[PLAYER_ID].name = "player"
        /\ objects[2].name = "stairs"

SortedByLevel(table) ==
    \A i, j \in 1..Len(table) : i < j => table[i].level <= table[j].level

\* The from_dungeon_level call recorded as r, on table.
LookupAsClaimed(table, r) ==
    LET qualify == {i \in 1..Len(table) : table[i].level <= r.level}
    IN  IF qualify = {} THEN r.ret = 0
        ELSE \E i \in qualify :
                /\ \A j \in qualify : j <= i
                /\ r.ret = table[i].value

\* C22: on a table sorted ascending by level, from_dungeon_level returns
\* the value of the last entry whose level is <= the level given, and 0
\* when there is none (the empty table included); on the table
\* [(1,5),(4,10),(7,2)] it returns 5 at level 3, 10 at level 4, 2 at level
\* 10 and 0 at level 0.
C22_FromDungeonLevel ==
    LET table == Unwrap(tables).max_monsters
    IN  (pc = "lookup" /\ SortedByLevel(table)) =>
            \A n \in 1..Len(calls) :
                /\ LookupAsClaimed(table, calls[n])
                /\ table = << Transition(1, 5), Transition(4, 10),
                              Transition(7, 2) >> =>
                        /\ calls[n].level = 3 => calls[n].ret = 5
                        /\ calls[n].level = 4 => calls[n].ret = 10
                        /\ calls[n].level = 10 => calls[n].ret = 2
                        /\ calls[n].level = 0 => calls[n].ret = 0

\* Right after the call at level 10 on the table [(1,5),(4,10),(7,2)],
\* which returned 2.
C22_Witness ==
    /\ pc = "lookup"
    /\ Unwrap(tables).max_monsters =
            << Transition(1, 5), Transition(4, 10), Transition(7, 2) >>
    /\ calls = << [fn |-> "from_dungeon_level", level |-> 10, ret |-> 2] >>

\* The generate_objects calls recorded in c for room, in order.
SpawnsIn(c, room) ==
    SelectSeq(c, LAMBDA r : r.fn = "generate_objects" /\ r.room = room)

\* The indices of the entities the call recorded as g pushed.
AddedBy(g) == g.first..(g.first + g.added - 1)

IsMonster(o) == IsSome(o.fighter) /\ IsSome(o.ai) /\ IsNone(o.item)

IsItem(o) == IsSome(o.item) /\ IsNone(o.fighter)

\* The entities of objs other than the player that stand in the interior of
\* room and satisfy Kind.
InRoom(objs, room, Kind(_)) ==
    {i \in 1..Len(objs) : /\ i # PLAYER_ID
                          /\ Kind(objs[i])
                          /\ GetPos(objs[i]) \in Interior(room)}

\* The generate_objects call recorded as g, for a kind with the cap table
\* cap_table: at most cap turns of the loop, at most one entity a turn, all
\* of the kind, and they are all of that kind that the room holds.
SpawnAsClaimed(g, cap_table, Kind(_)) ==
    LET cap == FromDungeonLevel(cap_table, dungeon_level)
    IN  /\ g.num_to_spawn <= cap
        /\ g.added <= g.num_to_spawn
        /\ g.added <= cap
        /\ AddedBy(g) \subseteq 2..Len(objects)
        /\ \A i \in AddedBy(g) : Kind(objects[i])
        /\ InRoom(objects, g.room, Kind) = AddedBy(g)

\* C23: for each room make_map passed to the spawner (each accepted room
\* after the first) there is one generate_objects call for the monsters and
\* one for the items; each adds at most from_dungeon_level(cap table,
\* dungeon level) entities, in at most that many turns of its loop, a turn
\* whose draw lands on a blocked tile adding nothing.
C23_SpawnCaps ==
    LET rooms == RoomsOf(calls)
    IN  (pc # "panic" /\ rooms # <<>>) =>
            /\ SpawnsIn(calls, rooms[1]) = <<>>
            /\ \A k \in 2..Len(rooms) :
                    LET g == SpawnsIn(calls, rooms[k])
                    IN  /\ Len(g) = 2
                        /\ SpawnAsClaimed(g[1], Unwrap(tables).max_monsters,
                                          IsMonster)
                        /\ SpawnAsClaimed(g[2], Unwrap(tables).max_items,
                                          IsItem)

\* Right after the descent into a level 2 whose second room got one orc in
\* two turns of the loop (the second draw fell on the orc's tile) and two
\* potions.
C23_Witness ==
    /\ dungeon_level = 2
    /\ Len(RoomsOf(calls)) = 2
    /\ LET g == SpawnsIn(calls, RoomsOf(calls)[2])
       IN  /\ Len(g) = 2
           /\ g[1].num_to_spawn = 2 /\ g[1].added = 1
           /\ g[2].added = 2

\* The entities of objs before index i that stand on the tile of entity i.
EarlierOnTile(objs, i) ==
    {j \in 1..(i - 1) : GetPos(objs[j]) = GetPos(objs[i])}

\* C24 as claimed: every entity the spawner adds stands in the interior of
\* its room on a tile that is not blocked and on which no entity of any
\* kind stood when it was placed.
C24_SpawnedApart ==
    \A n \in 1..Len(calls) :
        calls[n].fn = "generate_objects" =>
            \A i \in AddedBy(calls[n]) :
                /\ GetPos(objects[i]) \in Interior(calls[n].room)
                /\ GetPos(objects[i]) \in map
                /\ EarlierOnTile(objects, i) = {}

\* C24, what the code keeps: every entity the spawner adds stands in the
\* interior of its room on a tile that is not a wall and on which no
\* blocking entity stood when it was placed.
C24_SpawnedOffBlockers ==
    \A n \in 1..Len(calls) :
        calls[n].fn = "generate_objects" =>
            \A i \in AddedBy(calls[n]) :
                /\ GetPos(objects[i]) \in Interior(calls[n].room)
                /\ GetPos(objects[i]) \in map
                /\ \A j \in EarlierOnTile(objects, i) : ~objects[j].blocks

\* C25: after a make_map that accepted at least one room, the player stands
\* at the centre of the first accepted room, the spawner was not called for
\* that room and no monster or item stands in it, and the entity list holds
\* exactly one stairs entity, its last element, after every entity the
\* spawner added, at the centre of the last accepted room.
C25_PlayerAndStairs ==
    LET rooms == RoomsOf(calls)
        first == rooms[1]
        last == rooms[Len(rooms)]
        stairs == objects[Len(objects)]
    IN  (pc # "panic" /\ rooms # <<>>) =>
            /\ GetPos(objects[PLAYER_ID]) =
                    << (first.x1 + first.x2) \div 2, (first.y1 + first.y2) \div 2 >>
            /\ SpawnsIn(calls, first) = <<>>
            /\ InRoom(objects, first, IsMonster) = {}
            /\ InRoom(objects, first, IsItem) = {}
            /\ Len(objects) >= 2
            /\ stairs = Stairs((last.x1 + last.x2) \div 2,
                               (last.y1 + last.y2) \div 2)
            /\ \A i \in 1..(Len(objects) - 1) : objects[i].name # "stairs"
            /\ \A n \in 1..Len(calls) :
                    calls[n].fn = "generate_objects" =>
                        \A i \in AddedBy(calls[n]) : i < Len(objects)

\* Right after the descent into a level 2 of two rooms with an orc and a
\* potion in the second, the stairs last in the list and away from the
\* player.
C25_Witness ==
    /\ dungeon_level = 2
    /\ Len(RoomsOf(calls)) = 2
    /\ Len(objects) >= 4
    /\ \E i \in 2..(Len(objects) - 1) : IsMonster(objects[i])
    /\ \E i \in 2..(Len(objects) - 1) : IsItem(objects[i])
    /\ objects[Len(objects)].name = "stairs"
    /\ GetPos(objects[Len(objects)]) # GetPos(objects[PLAYER_ID])

\* C26: mut_two is called by player_move_or_attack and by ai_basic, each
\* time for the attack that follows it; in every attack the attacker and
\* the target are two different indices of the entity list, one of them the
\* player's; the player never attacks itself and no AI resolution is the
\* player's own, the player having no AI facet.
C26_MutTwoDistinct ==
    /\ IsNone(objects[PLAYER_ID].ai)
    /\ \A n \in 1..Len(calls) :
            /\ calls[n].fn = "attack" =>
                    /\ calls[n].self # calls[n].target
                    /\ calls[n].self \in 1..Len(objects)
                    /\ calls[n].target \in 1..Len(objects)
                    /\ calls[n].self = PLAYER_ID \/ calls[n].target = PLAYER_ID
            /\ calls[n].fn = "ai_take_turn" => calls[n].self # PLAYER_ID

\* Right after a monsters' turn in which an orc attacked the player, who
\* has killed another orc before.
C26_Witness ==
    /\ pc = "tick"
    /\ NamedOnFloor("remains of orc")
    /\ \E n \in 1..Len(calls) :
            /\ calls[n].fn = "attack"
            /\ calls[n].self # PLAYER_ID
            /\ calls[n].target = PLAYER_ID

\* The sum of bonus b over the equipped entries among the first n of inv.
RECURSIVE BonusSum(_, _, _)
BonusSum(inv, n, b) ==
    IF n = 0 THEN 0 ELSE BonusSum(inv, n - 1, b) + Bonus(inv[n], b)

\* The base value of entity o for stat (0 without a fighter facet).
Base(o, stat) == IF IsSome(o.fighter) THEN Unwrap(o.fighter)[stat] ELSE 0

\* max_hp, power and defense of entity o are its base values plus extra
\* times the bonuses of the equipped inventory entries.
StatsAre(o, extra) ==
    /\ MaxHp(o, inventory) = Base(o, "base_max_hp")
            + extra * BonusSum(inventory, Len(inventory), "max_hp_bonus")
    /\ Power(o, inventory) = Base(o, "base_power")
            + extra * BonusSum(inventory, Len(inventory), "power_bonus")
    /\ Defense(o, inventory) = Base(o, "base_defense")
            + extra * BonusSum(inventory, Len(inventory), "defense_bonus")

\* C27 as claimed: max_hp, power and defense of the player (the entity at
\* PLAYER_ID) are the base values of its fighter facet plus the bonuses of
\* exactly the inventory entries whose equipment is equipped; those of
\* every other entity are its base values alone.
C27_Stats ==
    \A i \in 1..Len(objects) :
        StatsAre(objects[i], IF i = PLAYER_ID THEN 1 ELSE 0)

\* C27, what the code keeps: the same, with the bonuses going to every
\* entity that has the name "player" and to no other.
C27_StatsByName ==
    /\ objects[PLAYER_ID].name = "player"
    /\ \A i \in 1..Len(objects) :
            StatsAre(objects[i], IF objects[i].name = "player" THEN 1 ELSE 0)

\* The entries that the calls of st2 have after those of st.
NewCalls(st, st2) == SubSeq(st2.calls, Len(st.calls) + 1, Len(st2.calls))

\* The step of one axis towards a target d tiles away, at squared distance
\* d2: d / sqrt(d2) rounded to the nearest integer.
TowardsPlayer(d, d2) ==
    CASE 4 * d * d < d2 -> 0
      [] d > 0 -> 1
      [] OTHER -> -1

\* Game state st2 is what one resolution of the Basic monster id makes of
\* game state st.
BasicAsClaimed(st, st2, id) ==
    LET m == st.objects[id]
        p == st.objects[PLAYER_ID]
        d2 == (p.x - m.x) * (p.x - m.x) + (p.y - m.y) * (p.y - m.y)
        to == << m.x + TowardsPlayer(p.x - m.x, d2),
                 m.y + TowardsPlayer(p.y - m.y, d2) >>
        free == /\ to \in map
                /\ \A j \in 1..Len(st.objects) :
                        st.objects[j].blocks => GetPos(st.objects[j]) # to
        attacks == CallsOf(NewCalls(st, st2), "attack")
    IN  /\ st2.objects[id].ai = Some(AiBasic)
        /\ st2.inventory = st.inventory
        /\ IF <<m.x, m.y>> \notin fov
           THEN /\ st2.objects = st.objects
                /\ st2.messages = st.messages
                /\ attacks = <<>>
           ELSE IF d2 >= 2 * 2
           THEN /\ attacks = <<>>
                /\ st2.messages = st.messages
                /\ st2.objects = [st.objects EXCEPT ![id] =
                        IF free THEN [m EXCEPT !.x = to[1], !.y = to[2]]
                        ELSE m]
                /\ st2.objects[id].x - m.x \in -1..1
                /\ st2.objects[id].y - m.y \in -1..1
           ELSE /\ GetPos(st2.objects[id]) = GetPos(m)
                /\ IF Unwrap(p.fighter).hp > 0
                   THEN attacks = << [fn |-> "attack", self |-> id,
                                      target |-> PLAYER_ID] >>
                   ELSE /\ attacks = <<>>
                        /\ st2.objects = st.objects
                        /\ st2.messages = st.messages

\* C28: in every monsters' turn, each resolution of a monster whose AI is
\* Basic, from the state the resolutions before it have left: outside the
\* field of view it changes nothing; in view at a distance >= 2 from the
\* player it moves the monster one step in the rounded direction of the
\* player if that tile is not blocked, changes nothing else and does not
\* attack; in view at a distance < 2 it does not move the monster and
\* attacks the player exactly if the player's hp is > 0; the AI after it
\* is Basic.
C28_BasicResolution ==
    (pc = "monsters" /\ player_action = "TookTurn" /\ Alive) =>
        \A id \in 1..Len(objects) :
            \A st \in MonsterLoop({St}, 1, id - 1, fov, map) :
                st.objects[id].ai = Some(AiBasic) =>
                    \A st2 \in AiTakeTurn(st, id, fov, map) :
                        BasicAsClaimed(st, st2, id)

\* Right after a monsters' turn of two resolutions: the first orc's attack
\* killed the player and the second orc, next to the player as well, did
\* not attack.
C28_Witness ==
    /\ pc = "tick"
    /\ ~Alive
    /\ Len(calls) = 4
    /\ calls[1].fn = "ai_take_turn"
    /\ calls[2].fn = "attack"
    /\ calls[3].fn = "take_damage"
    /\ calls[4].fn = "ai_take_turn"
    /\ \A n \in {1, 4} :
            Dist2(objects[calls[n].self].x, objects[calls[n].self].y,
                  objects[PLAYER_ID].x, objects[PLAYER_ID].y) < 4

SameSlot(inv, i, k) ==
    /\ IsSome(inv[k].equipment)
    /\ Unwrap(inv[k].equipment).slot = Unwrap(inv[i].equipment).slot

\* The use of the equipment item that is inventory entry i, with result r.
ToggleAsClaimed(i, r) ==
    /\ r = "UsedAndKept"
    /\ Len(inventory') = Len(inventory)
    /\ IF IsEquipped(inventory[i])
       THEN ~IsEquipped(inventory'[i])
       ELSE /\ IsEquipped(inventory'[i])
            /\ \A k \in 1..Len(inventory) :
                    (k # i /\ SameSlot(inventory, i, k))
                        => ~IsEquipped(inventory'[k])
    /\ \A s1 \in UseItem(St, i, fov) :
            \A s2 \in UseItem(s1, i, fov) :
                IsEquipped(s2.inventory[i]) <=> IsEquipped(inventory[i])

UsesEquipment(n) ==
    /\ calls'[n].fn = "use_item"
    /\ inventory[calls'[n].inventory_id].item
            \in {Some("Sword"), Some("Shield"), Some("Helmet")}

\* C30 as claimed: the use of a Sword, Shield or Helmet entry returns
\* UsedAndKept; an entry that was not equipped is equipped afterwards and
\* no other entry of its slot is; an entry that was equipped is not equipped
\* afterwards; and a second use right after the first gives the entry the
\* equipped flag it had.
C30_Toggle ==
    [][\A n \in 1..Len(calls') :
            UsesEquipment(n) =>
                ToggleAsClaimed(calls'[n].inventory_id, calls'[n].result)]_vars

\* C30, what the code keeps: the same for a use in a state with at most one
\* equipped entry per slot.
C30_ToggleFromOnePerSlot ==
    [][\A n \in 1..Len(calls') :
            (UsesEquipment(n) /\ OneEquippedPerSlot(inventory)) =>
                ToggleAsClaimed(calls'[n].inventory_id, calls'[n].result)]_vars

\* Entity i acquires a confusion in the step: its AI is one Confused
\* wrapper deeper than before.
Confounded(i) ==
    /\ i \in 1..Len(objects) /\ i \in 1..Len(objects')
    /\ IsSome(objects'[i].ai)
    /\ Len(Unwrap(objects'[i].ai))
            > (IF IsSome(objects[i].ai) THEN Len(Unwrap(objects[i].ai)) ELSE 0)

UsesConfuse(n) ==
    /\ calls'[n].fn = "use_item"
    /\ inventory[calls'[n].inventory_id].item = Some("Confuse")

\* The use of a confuse scroll recorded as entry n of the step's calls.
ConfuseAsClaimed(n) ==
    LET u == calls'[n]
        p == objects[PLAYER_ID]
        hit == {i \in 1..Len(objects) : objects'[i].ai # objects[i].ai}
    IN  /\ Len(objects') = Len(objects)
        /\ u.result \in {"UsedUp", "Cancelled"}
        /\ u.result = "UsedUp" =>
                /\ Cardinality(hit) = 1
                /\ \A m \in hit :
                        /\ m # PLAYER_ID
                        /\ IsSome(objects[m].fighter)
                        /\ IsInFov(fov, objects[m].x, objects[m].y)
                        /\ Dist2(p.x, p.y, objects[m].x, objects[m].y)
                                <= CONFUSE_RANGE * CONFUSE_RANGE
                        /\ IsSome(objects[m].ai)
                        /\ objects'[m].ai =
                                Some(AiConfused(Unwrap(objects[m].ai), 10))
                /\ inventory' = Remove(inventory, u.inventory_id)
        /\ u.result = "Cancelled" =>
                /\ hit = {}
                /\ inventory' = inventory

\* C31: an entity is confused only by the use of a confuse scroll, and
\* that use either is UsedUp, wrapping the AI of exactly one entity in
\* Confused with num_turns = 10 around the AI it had, that entity being
\* other than the player, with a fighter facet, on a tile in the field of
\* view at Euclidean distance <= CONFUSE_RANGE (8) from the player, the
\* scroll leaving the inventory; or is Cancelled, no entity's AI changing
\* and the inventory staying as it was.
C31_Confuse ==
    [][/\ \A n \in 1..Len(calls') : UsesConfuse(n) => ConfuseAsClaimed(n)
       /\ (\E i \in 1..Len(objects) : Confounded(i)) =>
            \E n \in 1..Len(calls') :
                UsesConfuse(n) /\ calls'[n].result = "UsedUp"]_vars

\* Right after a confuse scroll was used up on a Basic monster standing in
\* view exactly CONFUSE_RANGE tiles from the player.
C31_Witness ==
    /\ \E n \in 1..Len(calls) :
            calls[n].fn = "use_item" /\ calls[n].result = "UsedUp"
    /\ \E m \in 2..Len(objects) :
            /\ objects[m].ai = Some(AiConfused(AiBasic, CONFUSE_NUM_TURNS))
            /\ IsInFov(fov, objects[m].x, objects[m].y)
            /\ FromPlayer(objects, m) = CONFUSE_RANGE * CONFUSE_RANGE

\* The tiles of the map grid.
Grid == (0..(game_settings.map_w - 1)) \X (0..(game_settings.map_h - 1))

\* The inventory entries the living player can use as a fireball scroll at
\* the inventory key.
FireballEntries ==
    IF pc = "keys" /\ Alive
    THEN {i \in 1..Len(inventory) : inventory[i].item = Some("Fireball")}
    ELSE {}

\* The centres the use of inventory entry i can cast a fireball on.
Centres(i) ==
    UNION {{<<st.calls[k].x, st.calls[k].y>> :
                k \in {j \in 1..Len(st.calls) : st.calls[j].fn = "cast_fireball"}} :
           st \in UseItem(St, i, fov)}

\* The results of the uses of inventory entry i that cast no fireball.
Uncast(i) ==
    {st.calls[Len(st.calls)].result :
        st \in {t \in UseItem(St, i, fov) :
                    \A j \in 1..Len(t.calls) : t.calls[j].fn # "cast_fireball"}}

\* C32 as claimed: the selection of a fireball's centre accepts a click on
\* any tile of the map, in the field of view or not, at any distance, and
\* ends without a centre by the cancel gesture only.
C32_AnyTile ==
    \A i \in FireballEntries :
        Centres(i) = Grid /\ Uncast(i) = {"Cancelled"}

\* C32, the selection the code makes: it accepts a click on exactly the
\* tiles of the map that are in the field of view, at any distance from
\* the player, and ends without a centre by the cancel gesture only.
C32_TileInView ==
    \A i \in FireballEntries :
        Centres(i) = fov \cap Grid /\ Uncast(i) = {"Cancelled"}

\* Right after a fireball cast on a tile BurnTorchRadius tiles from the
\* player, further than the fireball's radius, with tiles of the map out of
\* view.
C32_Witness ==
    /\ Grid \ fov # {}
    /\ \E n \in 1..Len(calls) :
            /\ calls[n].fn = "cast_fireball"
            /\ Dist2(objects[PLAYER_ID].x, objects[PLAYER_ID].y,
                     calls[n].x, calls[n].y) = BurnTorchRadius * BurnTorchRadius

\* No two blocking entities share a tile and none stands on a wall tile.
BlockersApart(objs, m) ==
    /\ \A i, j \in 1..Len(objs) :
            (i # j /\ objs[i].blocks /\ objs[j].blocks)
                => GetPos(objs[i]) # GetPos(objs[j])
    /\ \A i \in 1..Len(objs) : objs[i].blocks => GetPos(objs[i]) \in m

\* C33: in every state of the running program no two entities with
\* blocks = true stand on the same tile and none of them stands on a wall
\* tile, whichever of generation, spawning, moves of the player and of
\* Basic and Confused monsters, deaths, pick-ups, drops and descents led
\* to it.
C33_BlockersApart == pc # "panic" => BlockersApart(objects, map)

\* After a monsters' turn on level 2: a confused orc that has taken random
\* steps stands next to the living player, who stands on the dropped
\* dagger.
C33_Witness ==
    /\ pc = "tick" /\ dungeon_level = 2 /\ Alive
    /\ \E i \in 2..Len(objects) :
            /\ IsConfused(objects[i])
            /\ Head(Unwrap(objects[i].ai)) < CONFUSE_NUM_TURNS - 1
            /\ FromPlayer(objects, i) = 1
    /\ \E i \in 2..Len(objects) :
            /\ objects[i].name = "dagger"
            /\ GetPos(objects[i]) = GetPos(objects[PLAYER_ID])

\* The tiles of the map grid that are not on its outer border.
Inner ==
    (1..(game_settings.map_w - 2)) \X (1..(game_settings.map_h - 2))

\* The tiles is_blocked is asked about when entity i is moved by one of the
\* offsets in {-1, 0, 1} x {-1, 0, 1}.
Lookups(i) ==
    {<<objects[i].x + dx, objects[i].y + dy>> : dx \in -1..1, dy \in -1..1}

\* C34: every open tile of a generated map (room interiors and corridors)
\* lies strictly inside the outer border, so every border tile is a wall;
\* every entity stands on an open tile, hence inside the map; and every
\* tile a move of the player or of a Basic or Confused monster asks
\* is_blocked about is a tile of the map grid.
C34_InsideBorder ==
    pc # "panic" =>
        /\ map \subseteq Inner
        /\ \A i \in 1..Len(objects) :
                /\ GetPos(objects[i]) \in map
                /\ Lookups(i) \subseteq Grid

\* After a monsters' turn: a confused orc that has taken random steps
\* stands at the last open tile before the border on one side, the living
\* player on the last before the border on the other.
C34_Witness ==
    /\ pc = "tick" /\ Alive
    /\ objects[PLAYER_ID].x = game_settings.map_w - 2
    /\ <<0, objects[PLAYER_ID].y>> \notin map
    /\ \E i \in 2..Len(objects) :
            /\ IsConfused(objects[i])
            /\ Head(Unwrap(objects[i].ai)) < CONFUSE_NUM_TURNS - 1
            /\ objects[i].x = 1

\* C35 as claimed: in every state the player's hp is at most the player's
\* max hp, base_max_hp plus the max-hp bonuses of the equipped inventory
\* entries.
C35_HpWithinMax ==
    Unwrap(objects[PLAYER_ID].fighter).hp <= MaxHp(objects[PLAYER_ID], inventory)

\* C35, its consequence: no use of a Heal item and no descent lowers the
\* player's hp.
C35_HealNeverLowers ==
    [][(\/ \E n \in 1..Len(calls') : UsesHeal(n)
        \/ dungeon_level' # dungeon_level)
            => Unwrap(objects'[PLAYER_ID].fighter).hp
                    >= Unwrap(objects[PLAYER_ID].fighter).hp]_vars

\* The number of resolutions an AI still spends confused or being
\* restored: num_turns + 2 for every Confused of the nest.
RECURSIVE Rank(_)
Rank(ai) == IF ai = AiBasic THEN 0 ELSE Head(ai) + 2 + Rank(Tail(ai))

\* The resolution of confused entity m in the step: with num_turns >= 0 the
\* same Confused with num_turns one lower, otherwise the previous AI.
ConfusedResolution(m) ==
    LET ai == Unwrap(objects[m].ai)
        ai2 == Unwrap(objects'[m].ai)
    IN  /\ IsSome(objects'[m].ai)
        /\ IF Head(ai) >= 0
           THEN ai2 = AiConfused(Tail(ai), Head(ai) - 1)
           ELSE ai2 = Tail(ai)
        /\ Head(ai) >= -1
        /\ Rank(ai2) = Rank(ai) - 1

\* The step resolves the AI of some entity.
Resolving == \E n \in 1..Len(calls') : calls'[n].fn = "ai_take_turn"

\* No entity is confused.
Calm == \A i \in 1..Len(objects) : ~IsConfused(objects[i])

\* C36: every resolution of a confused monster either takes 1 off
\* num_turns, the previous AI staying what it was, or, with the counter
\* run out, puts the previous AI back, which for nested confusions is the
\* Confused applied before; so the turns left over the whole nest go down
\* by 1 with each resolution, and in every run in which AI resolutions keep
\* happening no monster stays confused: each returns to Basic.
C36_WearsOff ==
    /\ [][\A n \in 1..Len(calls') :
            (calls'[n].fn = "ai_take_turn"
                /\ IsConfused(objects[calls'[n].self]))
                    => ConfusedResolution(calls'[n].self)]_vars
    /\ ([]<><<Resolving>>_vars => []<>Calm)

\* The resolution that ends the second of two nested confusions: the orc
\* is left with the one applied first, 3 turns of it to go.
C36_Witness ==
    /\ \E m \in 2..Len(objects) :
            objects[m].ai = Some(AiConfused(AiBasic, 3))
    /\ \E k \in 1..Len(messages) : messages[k] = "is no longer confused!"

\* handle_keys has returned from a use of an inventory entry that its
\* effect Cancelled, and the monsters' turn is next.
UseCancelled ==
    /\ pc = "monsters"
    /\ \E n \in 1..Len(calls) :
            calls[n].fn = "use_item" /\ calls[n].result = "Cancelled"

\* C37 as claimed, for a Cancelled effect: in a tick in which the item
\* chosen in the inventory menu returned Cancelled, the monsters' turn
\* resolves no AI.
C37_CancelledKeepsTurn == [][UseCancelled => ~Resolving]_vars

\* C37 as claimed, for the menu left without a choice or with a Cancelled
\* effect: handle_keys does not return TookTurn.
C37_UnusedKeepsTurn ==
    [][(/\ KeyInventory
        /\ \A n \in 1..Len(calls') :
                calls'[n].fn = "use_item" => calls'[n].result = "Cancelled")
            => player_action' # "TookTurn"]_vars

\* The templates of the spawn tables.
Templates ==
    {Unwrap(tables).monsters[k] : k \in 1..Len(Unwrap(tables).monsters)}
        \cup {Unwrap(tables).items[k] : k \in 1..Len(Unwrap(tables).items)}

\* The player stands on the tile of an entity named stairs.
StandsOnStairs ==
    \E i \in 2..Len(objects) :
        /\ objects[i].name = "stairs"
        /\ objects[i].x = objects[PLAYER_ID].x
        /\ objects[i].y = objects[PLAYER_ID].y

\* The step is a descent as claimed.
DescentAsClaimed ==
    LET p == objects[PLAYER_ID]
        p2 == objects'[PLAYER_ID]
        hp == Unwrap(p.fighter).hp
        max_hp == MaxHp(p, inventory)
        rooms == RoomsOf(calls')
        last == Len(objects')
    IN  /\ pc = "keys" /\ p.alive /\ StandsOnStairs
        /\ dungeon_level' = dungeon_level + 1
        /\ inventory' = inventory
        /\ p2 = [p EXCEPT !.x = p2.x, !.y = p2.y,
                          !.fighter[1].hp = Min(hp + max_hp \div 2, max_hp)]
        /\ pc' # "panic" =>
                /\ rooms # <<>>
                /\ \A k \in 1..Len(rooms) : Interior(rooms[k]) \subseteq map'
                /\ GetPos(p2) = Center(rooms[1])
                /\ last >= 2
                /\ objects'[last] = Stairs(Center(rooms[Len(rooms)])[1],
                                           Center(rooms[Len(rooms)])[2])
                /\ \A i \in 2..(last - 1) :
                        /\ \E conf \in Templates :
                                objects'[i] = AsObject(conf, objects'[i].x,
                                                       objects'[i].y)
                        /\ \E n \in 1..Len(calls') :
                                /\ calls'[n].fn = "generate_objects"
                                /\ i \in AddedBy(calls'[n])
                        /\ GetPos(objects'[i]) \in map'

\* C38: the dungeon level never goes down and changes only in a step of
\* the "<" key taken by the living player on the tile of the stairs, by
\* exactly 1; that step leaves the inventory as it is and the player as
\* they are but for the position and for the hp, which becomes
\* min(hp + max_hp / 2, max_hp); the map is the one the new make_map
\* carved, the player stands at the centre of its first room, and every
\* other entity is one the spawner has just made from a template or the
\* new stairs.  The "<" key off the stairs changes neither the entities nor
\* the inventory, the map, the level or the field of view, and takes no
\* turn.
C38_Descent ==
    [][/\ dungeon_level' >= dungeon_level
       /\ dungeon_level' # dungeon_level => DescentAsClaimed
       /\ (KeyStairs /\ ~StandsOnStairs) =>
            /\ UNCHANGED <<objects, inventory, map, dungeon_level, fov>>
            /\ player_action' = "DidntTakeTurn"]_vars

\* Right after the descent of a player who has killed an orc, was left
\* with 24 hp, has reached level 3 with 100 base_max_hp and now has 74 hp,
\* into a level 2 with an orc.
C38_Witness ==
    /\ dungeon_level = 2 /\ pc = "monsters"
    /\ player_action = "DidntTakeTurn"
    /\ RoomsOf(calls) # <<>>
    /\ Unwrap(objects[PLAYER_ID].fighter).hp = 74
    /\ Unwrap(objects[PLAYER_ID].fighter).base_max_hp = 100
    /\ objects[PLAYER_ID].level = 3
    /\ inventory = << Dagger >>
    /\ \E i \in 2..Len(objects) : IsMonster(objects[i])

\* Nothing can be spawned from the templates conf_data under the cap table
\* at the current level: the cap is 0, there is no template, or every
\* template's weight is 0.
NothingToSpawn(cap_table, conf_data) ==
    \/ FromDungeonLevel(cap_table, dungeon_level) = 0
    \/ conf_data = << >>
    \/ \A k \in 1..Len(conf_data) :
            FromDungeonLevel(conf_data[k].transition_table, dungeon_level) = 0

\* No template of conf_data has a weight above 0 at the current level.
NoWeights(conf_data) ==
    \A k \in 1..Len(conf_data) :
        FromDungeonLevel(conf_data[k].transition_table, dungeon_level) = 0

\* C39 as claimed: the generation of a level completes whichever kind has
\* nothing to spawn, and in each room the spawner was called for, the call
\* for a kind with nothing to spawn added no entity.
C39_SpawnerCompletes ==
    LET rooms == RoomsOf(calls)
        t == Unwrap(tables)
    IN  /\ pc # "panic"
        /\ \A k \in 2..Len(rooms) :
                LET g == SpawnsIn(calls, rooms[k])
                IN  /\ Len(g) = 2
                    /\ NothingToSpawn(t.max_monsters, t.monsters)
                            => g[1].added = 0
                    /\ NothingToSpawn(t.max_items, t.items)
                            => g[2].added = 0

\* C39, what the code keeps: a call of the spawner with a cap of 0 and a
\* template of weight above 0 returns and adds nothing; the program dies
\* in the generation of a level exactly if a second room was accepted and
\* a kind has no template of weight above 0 at that level.
C39_DiesWithoutWeights ==
    LET rooms == RoomsOf(calls)
        t == Unwrap(tables)
    IN  /\ \A n \in 1..Len(calls) :
                (calls[n].fn = "generate_objects" /\ calls[n].max_spawns = 0)
                    => calls[n].added = 0
        /\ pc = "panic" => (NoWeights(t.monsters) \/ NoWeights(t.items))
        /\ (pc # "panic" /\ (NoWeights(t.monsters) \/ NoWeights(t.items)))
                => \A n \in 1..Len(calls) : calls[n].fn # "generate_objects"
====
